---- MODULE Spec2Model ----
(***************************************************************************)
(* A model of the anubisdb storage engine: slotted pages, the pager, the   *)
(* B+Tree built on them, and the catalog / table layer that keeps table    *)
(* rows and secondary indexes in B+Trees of one database file.             *)
(*                                                                         *)
(* A page is modelled at the level of its header fields and its cells in   *)
(* cell-pointer order (each cell with its offset in the content area).     *)
(* All sizes are the byte sizes the code computes.                         *)
(***************************************************************************)
EXTENDS Integers, Sequences, FiniteSets, TLC

(***************************************************************************)
(* Program constants.                                                      *)
(***************************************************************************)
PageSize == 4096
MinFreeSpaceThreshold == 64
LeafHeaderSize == 20
InteriorHeaderSize == 16
PageTypeInteriorTable == 2
PageTypeLeafTable == 5
PageTypeInteriorIndex == 10
PageTypeLeafIndex == 13
KeyTypeInt == 1
KeyTypeText == 2
KeyTypeFloat == 3
KeyTypeBoolean == 4

\* 2^16 and 2^24: uint16 arithmetic, and the weight of the first byte of a
\* big-endian u32
U16 == 256 * 256
U24 == 256 * 256 * 256

(***************************************************************************)
(* Bounds of the model.                                                    *)
(***************************************************************************)
MaxKey == 4          \* B+Tree keys are IntKey 1..MaxKey
MaxUpdateKey == 3    \* the keys of the runs with Update are 1..MaxUpdateKey
MaxPages == 5        \* no allocation once the file holds this many pages
SmallLen == 40       \* value lengths offered to Insert / Update
BigLen == 1500
MaxFilePages == 7    \* as MaxPages, for the file of a catalog with its tables
MaxRowId == 3        \* the primary keys of the rows are 1..MaxRowId
BigNameLen == 600    \* table names have one character or BigNameLen characters
MaxPagerPage == 2    \* the pager on its file writes at most MaxPagerPage different pages
MaxCacheSize == 2    \* maxSize of the lruCache that is filled
MaxUses == 2         \* Get is called while lastUsed of the entry is below MaxUses
MaxCellKey == 2       \* the keys of the cells put into one page are 1..MaxCellKey
HugeLen == 3000      \* a value of which one fits in a leaf and two do not
SplitKeyLen == 650   \* the separator keys of the interior page that is split are texts of this length
MaxNamePages == 5     \* the file of the catalog whose entries are looked up by name has at most this many pages
MaxChain == 3         \* the file whose leaf chain is walked has this many leaf pages
MaxCells == 3         \* no insertCell once the page holds this many cells

Min(a, b) == IF a < b THEN a ELSE b

\* the element of a one-element set: The({e(x) : x \in {v}}) is e(v), with v
\* computed once
The(S) == CHOOSE x \in S : TRUE

(***************************************************************************)
(* Strings are run-length encoded: a sequence of runs [c |-> character     *)
(* code, n |-> repetitions], so that long names and long text values stay  *)
(* small.  StrCompare is Go's byte-wise string comparison.                 *)
(***************************************************************************)
StrLen(s) ==
  LET RECURSIVE sum(_)
      sum(i) == IF i = 0 THEN 0 ELSE s[i].n + sum(i - 1)
  IN sum(Len(s))

RECURSIVE StrCompare(_, _)
StrCompare(a, b) ==
  IF Len(a) = 0 THEN (IF Len(b) = 0 THEN 0 ELSE -1)
  ELSE IF Len(b) = 0 THEN 1
  ELSE IF a[1].c < b[1].c THEN -1
  ELSE IF a[1].c > b[1].c THEN 1
  ELSE LET m == Min(a[1].n, b[1].n)
           ra == IF a[1].n = m THEN Tail(a) ELSE <<[c |-> a[1].c, n |-> a[1].n - m]>> \o Tail(a)
           rb == IF b[1].n = m THEN Tail(b) ELSE <<[c |-> b[1].c, n |-> b[1].n - m]>> \o Tail(b)
       IN StrCompare(ra, rb)

StrConcat(a, b) ==
  IF Len(a) = 0 THEN b
  ELSE IF Len(b) = 0 THEN a
  ELSE IF a[Len(a)].c = b[1].c
       THEN SubSeq(a, 1, Len(a) - 1) \o <<[c |-> b[1].c, n |-> a[Len(a)].n + b[1].n]>> \o Tail(b)
       ELSE a \o b

(***************************************************************************)
(* Keys.  A key is [type, v]: v is an integer for IntKey, a string for     *)
(* TextKey.                                                                *)
(***************************************************************************)
NewIntKey(i) == [type |-> KeyTypeInt, v |-> i]
NewTextKey(s) == [type |-> KeyTypeText, v |-> s]

\* Key.Compare: keys of different types are ordered by their type tag
Compare(k, other) ==
  IF k.type # other.type THEN (IF k.type < other.type THEN -1 ELSE 1)
  ELSE IF k.type = KeyTypeText THEN StrCompare(k.v, other.v)
  ELSE IF k.v < other.v THEN -1
  ELSE IF k.v > other.v THEN 1
  ELSE 0

\* len(Key.Encode())
EncodedLen(k) ==
  IF k.type = KeyTypeText THEN 5 + StrLen(k.v)
  ELSE IF k.type = KeyTypeBoolean THEN 2
  ELSE 9

\* Key.Encode: the tag byte, the length of the encoding and the content
Encode(k) == [tag |-> k.type, len |-> EncodedLen(k), key |-> k]

NoKey == [type |-> 0, v |-> 0]

\* DecodeKey on a byte slice, given as its length, its first byte and the
\* key whose encoding starts the slice (NoKey when the slice starts elsewhere)
DecodeKey(data) ==
  IF data.len < 1 THEN [err |-> "key data too short", key |-> NoKey]
  ELSE IF data.tag \notin {KeyTypeInt, KeyTypeText, KeyTypeFloat, KeyTypeBoolean}
       THEN [err |-> "unknown key type", key |-> NoKey]
  ELSE IF data.key.type = 0 \/ data.len < EncodedLen(data.key)
       THEN [err |-> "invalid key data", key |-> NoKey]
  ELSE [err |-> "", key |-> data.key]

(***************************************************************************)
(* Cells.  A leaf cell is [key, value, off], an interior cell is           *)
(* [key, child, off]; off is the cell's offset in its page.  A value is    *)
(* opaque bytes: [id, len].                                                *)
(***************************************************************************)
NewLeafCell(key, value) == [key |-> key, value |-> value, off |-> 0]
NewInteriorCell(key, childPage) == [key |-> key, child |-> childPage, off |-> 0]

IsLeafCell(cell) == "value" \in DOMAIN cell

LeafCellSize(cell) == 4 + EncodedLen(cell.key) + 4 + cell.value.len
InteriorCellSize(cell) == 4 + 4 + EncodedLen(cell.key)
CellSize(cell) == IF IsLeafCell(cell) THEN LeafCellSize(cell) ELSE InteriorCellSize(cell)

\* LeafCell.Serialize / InteriorCell.Serialize.  The serialized cell is the
\* sequence of its fields: a big-endian u32, an encoded key, or value bytes.
SerializeLeafCell(cell) ==
  << [f |-> "u32", v |-> EncodedLen(cell.key)],
     [f |-> "key", v |-> cell.key],
     [f |-> "u32", v |-> cell.value.len],
     [f |-> "bytes", v |-> cell.value] >>

SerializeInteriorCell(cell) ==
  << [f |-> "u32", v |-> cell.child],
     [f |-> "u32", v |-> EncodedLen(cell.key)],
     [f |-> "key", v |-> cell.key] >>

Serialize(cell) ==
  IF IsLeafCell(cell) THEN SerializeLeafCell(cell) ELSE SerializeInteriorCell(cell)

\* the first byte of a field
FirstByte(fld) ==
  IF fld.f = "u32" THEN (fld.v \div U24) % 256
  ELSE IF fld.f = "key" THEN fld.v.type
  ELSE 0

\* the n bytes of data that start with field number i
SliceAtField(data, i, n) ==
  [len |-> n, tag |-> FirstByte(data[i]),
   key |-> IF data[i].f = "key" THEN data[i].v ELSE NoKey]

\* DeserializeLeafCell: keyLen at byte 0, the key at byte 4, then valueLen
\* and the value
DeserializeLeafCell(data) ==
  LET keyLen == data[1].v
      dk == DecodeKey(SliceAtField(data, 2, keyLen))
  IN IF dk.err # "" THEN [err |-> dk.err, cell |-> NewLeafCell(NoKey, [id |-> 0, len |-> 0])]
     ELSE IF Len(data) < 4 \/ data[3].f # "u32" \/ data[4].f # "bytes"
          THEN [err |-> "value data truncated", cell |-> NewLeafCell(NoKey, [id |-> 0, len |-> 0])]
     ELSE [err |-> "", cell |-> NewLeafCell(dk.key, data[4].v)]

\* DeserializeInteriorCell: childPage at byte 0, keyLen at byte 4, the key
\* at byte 8
DeserializeInteriorCell(data) ==
  LET childPage == data[1].v
      keyLen == data[2].v
      dk == IF data[2].f = "u32" /\ Len(data) >= 3
            THEN DecodeKey(SliceAtField(data, 3, keyLen))
            ELSE [err |-> "invalid interior cell data", key |-> NoKey]
  IN IF dk.err # "" THEN [err |-> dk.err, cell |-> NewInteriorCell(NoKey, 0)]
     ELSE [err |-> "", cell |-> NewInteriorCell(dk.key, childPage)]

(***************************************************************************)
(* Pages.  Cell positions are 0-based as in the code; p.cells[i + 1] is    *)
(* the cell that cell pointer i refers to.                                 *)
(***************************************************************************)
isLeaf(t) == t = PageTypeLeafTable \/ t = PageTypeLeafIndex
isInterior(t) == t = PageTypeInteriorTable \/ t = PageTypeInteriorIndex

NewPage(pageType) ==
  [PageType |-> pageType, CellContentOffset |-> PageSize % U16, FragmentedBytes |-> 0,
   RightmostPointer |-> 0, ParentPage |-> 0, NextLeaf |-> 0, PrevLeaf |-> 0,
   cells |-> << >>]

NumCells(p) == Len(p.cells)

GetHeaderSize(p) ==
  IF isInterior(p.PageType) THEN InteriorHeaderSize
  ELSE IF isLeaf(p.PageType) THEN LeafHeaderSize
  ELSE 8

\* Page.validateHeader, TRUE when the header is accepted
validateHeader(p) ==
  /\ p.CellContentOffset >= GetHeaderSize(p)
  /\ p.CellContentOffset <= PageSize % U16
  /\ (GetHeaderSize(p) + NumCells(p) * 2) % U16 <= p.CellContentOffset

\* Page.readHeader on a buffer whose header bytes hold the fields of h, a
\* record [PageType, NumCells, CellContentOffset] of a u8 and two u16: the
\* fields are read and validateHeader is applied to them; "" when accepted
readHeader(h) ==
  IF h.CellContentOffset < GetHeaderSize(h) \/ h.CellContentOffset > PageSize % U16
  THEN "invalid page header: invalid CellContentOffset"
  ELSE IF (GetHeaderSize(h) + ((h.NumCells * 2) % U16)) % U16 > h.CellContentOffset
       THEN "invalid page header: cell pointer array overlaps with cell content area"
  ELSE ""

GetFreeSpace(p) ==
  LET usedStart == (GetHeaderSize(p) + NumCells(p) * 2) % U16
  IN IF p.CellContentOffset < usedStart THEN 0 ELSE p.CellContentOffset - usedStart

GetTotalFreeSpace(p) == (GetFreeSpace(p) + p.FragmentedBytes) % U16

CanFit(p, cellSize) ==
  LET required == ((cellSize % U16) + 2) % U16
  IN GetFreeSpace(p) >= required \/ GetTotalFreeSpace(p) >= required

\* Page.GetCellKey: reads a u32 at the cell's offset as keyLen and decodes
\* the keyLen bytes that follow it, whatever the kind of the cell
GetCellKey(p, cellNum) ==
  IF cellNum >= NumCells(p) THEN [err |-> "cell number out of range", key |-> NoKey]
  ELSE LET cell == p.cells[cellNum + 1]
           data == Serialize(cell)
           keyLen == data[1].v
       IN IF cell.off + 4 > PageSize \/ cell.off + 4 + keyLen > PageSize
          THEN [err |-> "key data exceeds page size", key |-> NoKey]
          ELSE DecodeKey(SliceAtField(data, 2, keyLen % U16))

GetLeafCell(p, cellNum) ==
  IF cellNum >= NumCells(p)
  THEN [err |-> "cell number out of range", cell |-> NewLeafCell(NoKey, [id |-> 0, len |-> 0])]
  ELSE The({[err |-> r.err, cell |-> [r.cell EXCEPT !.off = p.cells[cellNum + 1].off]] :
            r \in {DeserializeLeafCell(Serialize(p.cells[cellNum + 1]))}})

GetInteriorCell(p, cellNum) ==
  IF cellNum >= NumCells(p)
  THEN [err |-> "cell number out of range", cell |-> NewInteriorCell(NoKey, 0)]
  ELSE The({[err |-> r.err, cell |-> [r.cell EXCEPT !.off = p.cells[cellNum + 1].off]] :
            r \in {DeserializeInteriorCell(Serialize(p.cells[cellNum + 1]))}})

\* Page.findInsertPosition: binary search; a key that cannot be read ends
\* the search at the current left bound
RECURSIVE findInsertPositionFrom(_, _, _, _)
findInsertPositionFrom(p, key, lo, hi) ==
  IF lo >= hi THEN lo
  ELSE The({IF k.err # "" THEN lo
            ELSE IF Compare(k.key, key) < 0
                 THEN findInsertPositionFrom(p, key, ((lo + hi) \div 2) + 1, hi)
            ELSE findInsertPositionFrom(p, key, lo, (lo + hi) \div 2) :
            k \in {GetCellKey(p, (lo + hi) \div 2)}})

findInsertPosition(p, key) == findInsertPositionFrom(p, key, 0, NumCells(p))

\* Page.SearchCell
RECURSIVE SearchCellFrom(_, _, _, _)
SearchCellFrom(p, key, lo, hi) ==
  IF lo >= hi THEN [err |-> "", idx |-> lo, found |-> FALSE]
  ELSE The({IF k.err # "" THEN [err |-> k.err, idx |-> 0, found |-> FALSE]
            ELSE The({IF cmp = 0 THEN [err |-> "", idx |-> (lo + hi) \div 2, found |-> TRUE]
                      ELSE IF cmp = -1 THEN SearchCellFrom(p, key, ((lo + hi) \div 2) + 1, hi)
                      ELSE SearchCellFrom(p, key, lo, (lo + hi) \div 2) :
                      cmp \in {Compare(k.key, key)}}) :
            k \in {GetCellKey(p, (lo + hi) \div 2)}})

SearchCell(p, key) == SearchCellFrom(p, key, 0, NumCells(p))

\* Page.Defragment: the live cells, in pointer order, are packed against
\* the end of the page
RECURSIVE PackedOffset(_, _)
PackedOffset(cs, i) == IF i = 0 THEN PageSize % U16 ELSE (PackedOffset(cs, i - 1) + U16 - (CellSize(cs[i]) % U16)) % U16

\* a Defragment that packs the cells and keeps the FragmentedBytes count
DefragmentKeepsCount(p) ==
  [p EXCEPT !.cells = [i \in 1..Len(p.cells) |-> [p.cells[i] EXCEPT !.off = PackedOffset(p.cells, i)]],
            !.CellContentOffset = PackedOffset(p.cells, Len(p.cells))]
Defragment(p) ==
  [p EXCEPT !.cells = [i \in 1..Len(p.cells) |-> [p.cells[i] EXCEPT !.off = PackedOffset(p.cells, i)]],
            !.CellContentOffset = PackedOffset(p.cells, Len(p.cells)),
            !.FragmentedBytes = 0]

InsertAt(seq, pos, x) == SubSeq(seq, 1, pos) \o <<x>> \o SubSeq(seq, pos + 1, Len(seq))
RemoveAt(seq, pos) == SubSeq(seq, 1, pos) \o SubSeq(seq, pos + 2, Len(seq))

\* Page.insertCell (InsertLeafCell and InsertInteriorCell); q is the page
\* after the Defragment that insertCell may make
insertCell(p, cell) ==
  The({IF ~CanFit(p, cellSize) THEN [err |-> "not enough space", page |-> p]
       ELSE The({The({IF GetFreeSpace(q) < need
                      THEN [err |-> "not enough space after defragmentation", page |-> q]
                      ELSE IF newOffset < (GetHeaderSize(q) + (NumCells(q) + 1) * 2) % U16
                           THEN [err |-> "cell content would overlap with pointer array", page |-> q]
                      ELSE IF newOffset + cellSize > PageSize
                           THEN [err |-> "cell data exceeds page size",
                                 page |-> [q EXCEPT !.CellContentOffset = newOffset]]
                      ELSE [err |-> "",
                            page |-> [q EXCEPT !.CellContentOffset = newOffset,
                                               !.cells = InsertAt(q.cells,
                                                                  findInsertPosition(q, cell.key),
                                                                  [cell EXCEPT !.off = newOffset])]] :
                      newOffset \in {(q.CellContentOffset + U16 - (cellSize % U16)) % U16}}) :
                 q \in {IF GetFreeSpace(p) < need /\ GetTotalFreeSpace(p) >= need
                        THEN Defragment(p) ELSE p}}) :
       cellSize \in {CellSize(cell)}, need \in {((CellSize(cell) % U16) + 2) % U16}})

InsertLeafCell(p, cell) == insertCell(p, cell)
InsertInteriorCell(p, cell) == insertCell(p, cell)

\* a deleteCell that leaves the page as it is after the pointer is removed
deleteCellNoDefragment(p, cellNum) ==
  The({[p EXCEPT !.FragmentedBytes = IF cellSize > 0
                                     THEN Min((p.FragmentedBytes + cellSize) % U16, 255)
                                     ELSE @,
                 !.cells = RemoveAt(p.cells, cellNum)] :
       cellSize \in {The({IF got.err = "" THEN CellSize(got.cell) % U16 ELSE 0 :
                          got \in {IF isLeaf(p.PageType) THEN GetLeafCell(p, cellNum)
                                   ELSE GetInteriorCell(p, cellNum)}})}})
\* Page.deleteCell for cellNum < NumCells; cellSize is the size of the cell
\* read, 0 when it cannot be read
deleteCell(p, cellNum) ==
  The({The({IF q.FragmentedBytes > MinFreeSpaceThreshold THEN Defragment(q) ELSE q :
            q \in {[p EXCEPT !.FragmentedBytes =
                                IF cellSize > 0
                                THEN Min((p.FragmentedBytes + cellSize) % U16, 255)
                                ELSE @,
                             !.cells = RemoveAt(p.cells, cellNum)]}}) :
       cellSize \in {The({IF got.err = "" THEN CellSize(got.cell) % U16 ELSE 0 :
                          got \in {IF isLeaf(p.PageType) THEN GetLeafCell(p, cellNum)
                                   ELSE GetInteriorCell(p, cellNum)}})}})

(***************************************************************************)
(* The pager.  The file is the sequence of its pages: page n is d[n], and  *)
(* numPages is Len(d).                                                     *)
(***************************************************************************)
\* what Page.writeHeader stores and Page.readHeader reads back: a leaf
\* header has no RightmostPointer, an interior header no leaf links
OnDisk(page) ==
  IF isInterior(page.PageType) THEN [page EXCEPT !.NextLeaf = 0, !.PrevLeaf = 0]
  ELSE IF isLeaf(page.PageType) THEN [page EXCEPT !.RightmostPointer = 0]
  ELSE [page EXCEPT !.RightmostPointer = 0, !.ParentPage = 0, !.NextLeaf = 0, !.PrevLeaf = 0]

ReadPage(d, pageNum) ==
  IF pageNum = 0 THEN [err |-> "page 0 is reserved for database header", page |-> NewPage(0)]
  ELSE IF pageNum > Len(d) THEN [err |-> "page number out of range", page |-> NewPage(0)]
  ELSE IF ~validateHeader(d[pageNum]) THEN [err |-> "invalid page header", page |-> NewPage(0)]
  ELSE [err |-> "", page |-> d[pageNum]]

WritePage(d, pageNum, page) ==
  IF pageNum = 0 THEN [err |-> "page 0 is reserved for database header", d |-> d]
  ELSE IF pageNum > Len(d) THEN [err |-> "page number out of range", d |-> d]
  ELSE [err |-> "", d |-> [d EXCEPT ![pageNum] = OnDisk(page)]]

AllocatePage(d, pageType, parent) ==
  LET page == [NewPage(pageType) EXCEPT !.ParentPage = parent]
  IN [pageNum |-> Len(d) + 1, page |-> page, d |-> Append(d, OnDisk(page))]

(***************************************************************************)
(* The pager on its file.  A file is [whole, rest |-> its length is whole  *)
(* times PageSize bytes and rest < PageSize bytes more, magic and version  *)
(* |-> what its first 12 bytes hold, data |-> the pages that were written, *)
(* by page number, fill |-> what every other page below the end of the     *)
(* file holds].  A Pager is [open, numPages].  ok tells whether the write  *)
(* to the file succeeds; a write that fails leaves the file as it was.     *)
(* Lengths are counted in pages because 2^32 is beyond the integers of    *)
(* TLC; numPages stays far below 2^32 here.                                *)
(***************************************************************************)
\* 2^32 bytes are PagesPerU32 pages
PagesPerU32 == (U16 \div PageSize) * U16

\* "AnubisDB"
dbMagicNumber ==
  [i \in 1..8 |-> [c |-> <<65, 110, 117, 98, 105, 115, 68, 66>>[i], n |-> 1]]

NoPager == [open |-> FALSE, numPages |-> 0]

\* file.WriteAt(page, PageSize * n) and file.ReadAt(page, PageSize * n)
WriteAt(f, n, page, ok) ==
  IF ~ok THEN [err |-> "write failed", f |-> f]
  ELSE [err |-> "",
        f |-> IF n + 1 > f.whole
              THEN [f EXCEPT !.data = (n :> page) @@ f.data, !.whole = n + 1, !.rest = 0]
              ELSE [f EXCEPT !.data = (n :> page) @@ f.data]]

ReadAt(f, n) ==
  IF n + 1 > f.whole THEN [err |-> "EOF", page |-> NewPage(0)]
  ELSE [err |-> "", page |-> IF n \in DOMAIN f.data THEN f.data[n] ELSE f.fill]

\* Pager.writeHeader with the header NewPager makes; Pager.readHeader
PagerWriteHeader(f, ok) ==
  IF ~ok THEN [err |-> "write failed", f |-> f]
  ELSE [err |-> "",
        f |-> IF f.whole = 0
              THEN [f EXCEPT !.magic = dbMagicNumber, !.version = 1, !.whole = 1, !.rest = 0]
              ELSE [f EXCEPT !.magic = dbMagicNumber, !.version = 1]]

PagerReadHeader(f) ==
  IF f.whole = 0 THEN "EOF"
  ELSE IF f.magic # dbMagicNumber THEN "invalid database file: bad magic number"
  ELSE ""

\* NewPager(filename) on the file f: the error, the file and the Pager.
\* stat.Size() is an int64 that is converted to uint32 before the division:
\* (whole * PageSize + rest) % 2^32 is (whole % PagesPerU32) * PageSize + rest.
NewPager(f, ok) ==
  IF f.whole = 0 /\ f.rest = 0
  THEN The({IF w.err # "" THEN [err |-> w.err, f |-> w.f, p |-> NoPager]
            ELSE [err |-> "", f |-> w.f, p |-> [open |-> TRUE, numPages |-> 0]] :
            w \in {PagerWriteHeader(f, ok)}})
  ELSE IF f.rest # 0
       THEN [err |-> "corrupted database file: size not multiple of page size",
             f |-> f, p |-> NoPager]
  ELSE IF PagerReadHeader(f) # "" THEN [err |-> PagerReadHeader(f), f |-> f, p |-> NoPager]
  ELSE The({[err |-> "", f |-> f,
             p |-> [open |-> TRUE,
                    numPages |-> IF totalPages > 0 THEN totalPages - 1 ELSE 0]] :
            totalPages \in {f.whole % PagesPerU32}})

\* Pager.ReadPage, Pager.WritePage and Pager.AllocatePage on the file
PagerReadPage(f, p, pageNum) ==
  IF pageNum = 0 THEN [err |-> "page 0 is reserved for database header", page |-> NewPage(0)]
  ELSE IF pageNum > p.numPages THEN [err |-> "page number out of range", page |-> NewPage(0)]
  ELSE The({IF r.err # "" THEN r
            ELSE IF ~validateHeader(r.page) THEN [err |-> "invalid page header", page |-> NewPage(0)]
            ELSE r :
            r \in {ReadAt(f, pageNum)}})

\* WritePage without the test for page 0
PagerWritePageAnyPage(f, p, pageNum, page, ok) ==
  IF pageNum > p.numPages THEN [err |-> "page number out of range", f |-> f]
  ELSE WriteAt(f, pageNum, OnDisk(page), ok)

PagerWritePage(f, p, pageNum, page, ok) ==
  IF pageNum = 0 THEN [err |-> "page 0 is reserved for database header", f |-> f]
  ELSE IF pageNum > p.numPages THEN [err |-> "page number out of range", f |-> f]
  ELSE WriteAt(f, pageNum, OnDisk(page), ok)

\* AllocatePage that counts the page also when the write has failed
PagerAllocatePageCountsFirst(f, p, pageType, parent, ok) ==
  The({[err |-> w.err, pageNum |-> IF w.err # "" THEN 0 ELSE p.numPages + 1, f |-> w.f,
        p |-> [p EXCEPT !.numPages = p.numPages + 1]] :
       w \in {WriteAt(f, p.numPages + 1,
                      OnDisk([NewPage(pageType) EXCEPT !.ParentPage = parent]), ok)}})

PagerAllocatePage(f, p, pageType, parent, ok) ==
  The({IF w.err # "" THEN [err |-> w.err, pageNum |-> 0, f |-> w.f, p |-> p]
       ELSE [err |-> "", pageNum |-> pageNum, f |-> w.f,
             p |-> [p EXCEPT !.numPages = p.numPages + 1]] :
       pageNum \in {p.numPages + 1},
       w \in {WriteAt(f, p.numPages + 1,
                      OnDisk([NewPage(pageType) EXCEPT !.ParentPage = parent]), ok)}})

GetNumPages(p) == p.numPages

(***************************************************************************)
(* The B+Tree.  A tree handle is (pager, root, isIndex); an operation      *)
(* takes the file d and the handle's root and returns the error ("" for    *)
(* success), the file and the handle's root after the call.                *)
(***************************************************************************)
getLeafPageType(isIndex) == IF isIndex THEN PageTypeLeafIndex ELSE PageTypeLeafTable
getInteriorPageType(isIndex) == IF isIndex THEN PageTypeInteriorIndex ELSE PageTypeInteriorTable

NewBTree(d, isIndex) ==
  The({The({[err |-> w.err, d |-> w.d, root |-> a.pageNum] :
            w \in {WritePage(a.d, a.pageNum, a.page)}}) :
       a \in {AllocatePage(d, getLeafPageType(isIndex), 0)}})

\* LoadBTree: "" when a handle with this root is returned
LoadBTree(d, rootPage, isIndex) ==
  IF rootPage = 0 THEN "invalid root page number"
  ELSE The({IF r.err # "" THEN "failed to load root page"
            ELSE IF r.page.PageType # getLeafPageType(isIndex)
                    /\ r.page.PageType # getInteriorPageType(isIndex)
                 THEN "root page has incorrect type"
            ELSE "" :
            r \in {ReadPage(d, rootPage)}})

RECURSIVE findChildFrom(_, _, _)
findChildFrom(node, key, i) ==
  IF i >= NumCells(node) THEN [err |-> "", child |-> node.RightmostPointer]
  ELSE The({IF k.err # "" THEN [err |-> "failed to get cell key", child |-> 0]
            ELSE IF Compare(key, k.key) < 0
                 THEN The({IF c.err # "" THEN [err |-> "failed to get interior cell", child |-> 0]
                           ELSE [err |-> "", child |-> c.cell.child] :
                           c \in {GetInteriorCell(node, i)}})
            ELSE findChildFrom(node, key, i + 1) :
            k \in {GetCellKey(node, i)}})

findChild(node, key) == findChildFrom(node, key, 0)

\* navigateWithPath; navigateToLeaf is the same descent without the path.
\* The descent is cut after depth pages (a loop in the child pointers).
RECURSIVE navigateWithPathFrom(_, _, _, _, _)
navigateWithPathFrom(d, nodeNum, key, path, depth) ==
  The({IF r.err # "" THEN [err |-> r.err, leaf |-> 0, path |-> path]
       ELSE IF isLeaf(r.page.PageType) THEN [err |-> "", leaf |-> nodeNum, path |-> path]
       ELSE IF depth = 0 THEN [err |-> "descent does not end", leaf |-> 0, path |-> path]
       ELSE The({IF c.err # "" THEN [err |-> c.err, leaf |-> 0, path |-> path]
                 ELSE navigateWithPathFrom(d, c.child, key,
                                           Append(path, [pageNum |-> nodeNum, page |-> r.page]),
                                           depth - 1) :
                 c \in {findChild(r.page, key)}}) :
       r \in {ReadPage(d, nodeNum)}})

navigateWithPath(d, nodeNum, key) == navigateWithPathFrom(d, nodeNum, key, << >>, Len(d))

navigateToLeaf(d, nodeNum, key) ==
  The({[err |-> r.err, leaf |-> r.leaf] : r \in {navigateWithPath(d, nodeNum, key)}})

NoValue == [id |-> 0, len |-> 0]

\* the cell of key in a leaf page read: SearchCell, then GetLeafCell
LookUp(leaf, key) ==
  IF leaf.err # "" THEN [err |-> leaf.err, idx |-> 0, cell |-> NewLeafCell(NoKey, NoValue)]
  ELSE The({IF s.err # "" THEN [err |-> s.err, idx |-> 0, cell |-> NewLeafCell(NoKey, NoValue)]
            ELSE IF ~s.found
                 THEN [err |-> "key not found", idx |-> 0, cell |-> NewLeafCell(NoKey, NoValue)]
            ELSE The({[err |-> c.err, idx |-> s.idx, cell |-> c.cell] :
                      c \in {GetLeafCell(leaf.page, s.idx)}}) :
            s \in {SearchCell(leaf.page, key)}})

\* BTree.Search
Search(d, root, key) ==
  The({IF n.err # "" THEN [err |-> n.err, value |-> NoValue]
       ELSE The({IF c.err # "" THEN [err |-> c.err, value |-> NoValue]
                 ELSE [err |-> "", value |-> c.cell.value] :
                 c \in {LookUp(ReadPage(d, n.leaf), key)}}) :
       n \in {navigateToLeaf(d, root, key)}})

\* sortLeafCells / sortInternalCells: insertion sort, stable
RECURSIVE SinkCell(_, _)
SinkCell(cs, j) ==
  IF j > 1 /\ Compare(cs[j].key, cs[j - 1].key) < 0
  THEN SinkCell([cs EXCEPT ![j] = cs[j - 1], ![j - 1] = cs[j]], j - 1)
  ELSE cs

RECURSIVE sortCellsFrom(_, _)
sortCellsFrom(cs, i) == IF i > Len(cs) THEN cs ELSE sortCellsFrom(SinkCell(cs, i), i + 1)

sortLeafCells(cs) == sortCellsFrom(cs, 2)
sortInternalCells(cs) == sortCellsFrom(cs, 2)

resetPage(page) ==
  [page EXCEPT !.cells = << >>, !.CellContentOffset = PageSize % U16, !.FragmentedBytes = 0]

\* the cells cs[from..to] inserted one by one, stopping at the first failure
RECURSIVE InsertCells(_, _, _, _)
InsertCells(page, cs, from, to) ==
  IF from > to THEN [err |-> "", page |-> page]
  ELSE The({IF r.err # "" THEN r ELSE InsertCells(r.page, cs, from + 1, to) :
            r \in {insertCell(page, cs[from])}})

\* the cells of a page as GetLeafCell / GetInteriorCell return them
ReadCells(page) ==
  [i \in 1..NumCells(page) |->
     IF isLeaf(page.PageType) THEN GetLeafCell(page, i - 1) ELSE GetInteriorCell(page, i - 1)]

\* the cells read, with the new cell appended
WithNewCell(got, newCell) == [i \in 1..Len(got) |-> got[i].cell] \o <<newCell>>

SplitMid(n) ==
  LET mid == n \div 2
      m1 == IF mid = 0 THEN 1 ELSE mid
  IN IF m1 >= n THEN n - 1 ELSE m1

\* a createNewRoot that puts the right child into the cell and the left
\* child into the rightmost pointer
createNewRootSwapped(d, isIndex, leftChild, key, rightChild) ==
  The({The({IF ins.err # "" THEN [err |-> ins.err, d |-> a.d, root |-> 0]
            ELSE The({IF w.err # "" THEN [err |-> w.err, d |-> w.d, root |-> 0]
                      ELSE [err |-> "", d |-> w.d, root |-> a.pageNum] :
                      w \in {WritePage(a.d, a.pageNum,
                                       [ins.page EXCEPT !.RightmostPointer = leftChild])}}) :
            ins \in {InsertInteriorCell(a.page, NewInteriorCell(key, rightChild))}}) :
       a \in {AllocatePage(d, getInteriorPageType(isIndex), 0)}})
\* BTree.createNewRoot
createNewRoot(d, isIndex, leftChild, key, rightChild) ==
  The({The({IF ins.err # "" THEN [err |-> ins.err, d |-> a.d, root |-> 0]
            ELSE The({IF w.err # "" THEN [err |-> w.err, d |-> w.d, root |-> 0]
                      ELSE [err |-> "", d |-> w.d, root |-> a.pageNum] :
                      w \in {WritePage(a.d, a.pageNum,
                                       [ins.page EXCEPT !.RightmostPointer = rightChild])}}) :
            ins \in {InsertInteriorCell(a.page, NewInteriorCell(key, leftChild))}}) :
       a \in {AllocatePage(d, getInteriorPageType(isIndex), 0)}})

\* BTree.insertIntoParent and BTree.splitInternalNode.  root |-> 0 in the
\* result says that the handle's root is not changed.
RECURSIVE insertIntoParent(_, _, _, _, _, _)
RECURSIVE splitInternalNode(_, _, _, _, _, _)
insertIntoParent(d, isIndex, leftChild, splitKey, rightChild, path) ==
  IF Len(path) = 0 THEN createNewRoot(d, isIndex, leftChild, splitKey, rightChild)
  ELSE The({IF CanFit(parent.page, InteriorCellSize(cell))
            THEN The({IF ins.err # "" THEN [err |-> ins.err, d |-> d, root |-> 0]
                      ELSE The({[err |-> w.err, d |-> w.d, root |-> 0] :
                                w \in {WritePage(d, parent.pageNum, ins.page)}}) :
                      ins \in {InsertInteriorCell(parent.page, cell)}})
            ELSE splitInternalNode(d, isIndex, parent.pageNum, parent.page, cell,
                                   SubSeq(path, 1, Len(path) - 1)) :
            parent \in {path[Len(path)]}, cell \in {NewInteriorCell(splitKey, leftChild)}})

\* a splitInternalNode that moves the cell at mid into the sibling with the
\* cells after it, as a leaf split does
splitInternalNodeKeepsMid(d, isIndex, nodeNum, node, newCell, path) ==
  The({
    The({
      The({
        The({insertIntoParent(w2.d, isIndex, nodeNum, cs[mid + 1].key, a.pageNum, path) :
             w2 \in {WritePage(w1.d, a.pageNum,
                               [right.page EXCEPT !.RightmostPointer = node.RightmostPointer])}}) :
        w1 \in {WritePage(a.d, nodeNum,
                          [left.page EXCEPT !.RightmostPointer = cs[mid + 1].child])}}) :
      left \in {InsertCells(resetPage(node), cs, 1, mid)},
      right \in {InsertCells(resetPage(a.page), cs, mid + 1, Len(cs))}}) :
    cs \in {sortInternalCells(WithNewCell(ReadCells(node), newCell))},
    a \in {AllocatePage(d, getInteriorPageType(isIndex), 0)},
    mid \in {SplitMid(NumCells(node) + 1)}})

splitInternalNode(d, isIndex, nodeNum, node, newCell, path) ==
  The({
    IF \E i \in 1..Len(got) : got[i].err # ""
    THEN [err |-> "failed to get interior cell during split", d |-> d, root |-> 0]
    ELSE The({
      The({
        IF left.err # ""
        THEN [err |-> "failed to insert cell into left interior", d |-> a.d, root |-> 0]
        ELSE IF right.err # ""
             THEN [err |-> "failed to insert cell into right interior", d |-> a.d, root |-> 0]
        ELSE The({
          IF w1.err # "" THEN [err |-> w1.err, d |-> w1.d, root |-> 0]
          ELSE The({
            IF w2.err # "" THEN [err |-> w2.err, d |-> w2.d, root |-> 0]
            ELSE insertIntoParent(w2.d, isIndex, nodeNum, cs[mid + 1].key, a.pageNum, path) :
            w2 \in {WritePage(w1.d, a.pageNum,
                              [right.page EXCEPT !.RightmostPointer = node.RightmostPointer])}}) :
          w1 \in {WritePage(a.d, nodeNum,
                            [left.page EXCEPT !.RightmostPointer = cs[mid + 1].child])}}) :
        left \in {InsertCells(resetPage(node), cs, 1, mid)},
        right \in {InsertCells(resetPage(a.page), cs, mid + 2, Len(cs))}}) :
      cs \in {sortInternalCells(WithNewCell(got, newCell))},
      a \in {AllocatePage(d, getInteriorPageType(isIndex), 0)},
      mid \in {SplitMid(Len(got) + 1)}}) :
    got \in {ReadCells(node)}})

\* an insertAndSplit that writes the left leaf before it fills the right one
insertAndSplitWritesLeft(d, isIndex, leafNum, leaf, newCell, path) ==
  The({
    The({IF left.err # "" \/ right.err # ""
         THEN [err |-> "failed to insert cell into right leaf",
               d |-> WritePage(a.d, leafNum, left.page).d, root |-> 0]
         ELSE insertIntoParent(WritePage(WritePage(a.d, leafNum,
                                                   [left.page EXCEPT !.NextLeaf = a.pageNum]).d,
                                         a.pageNum,
                                         [right.page EXCEPT !.NextLeaf = leaf.NextLeaf,
                                                            !.PrevLeaf = leafNum]).d,
                               isIndex, leafNum, cs[mid + 1].key, a.pageNum, path) :
         left \in {InsertCells(resetPage(leaf), cs, 1, mid)},
         right \in {InsertCells(resetPage(a.page), cs, mid + 1, Len(cs))}}) :
    cs \in {sortLeafCells(WithNewCell(ReadCells(leaf), newCell))},
    a \in {AllocatePage(d, getLeafPageType(isIndex), 0)},
    mid \in {SplitMid(NumCells(leaf) + 1)}})

\* BTree.insertAndSplit; sibling and leafOut are the two leaves with their
\* chain links set, w0 the write of the next leaf's header
insertAndSplit(d, isIndex, leafNum, leaf, newCell, path) ==
  The({
    IF \E i \in 1..Len(got) : got[i].err # ""
    THEN [err |-> "failed to get leaf cell during split", d |-> d, root |-> 0]
    ELSE The({
      The({
        IF left.err # ""
        THEN [err |-> "failed to insert cell into left leaf", d |-> a.d, root |-> 0]
        ELSE IF right.err # ""
             THEN [err |-> "failed to insert cell into right leaf", d |-> a.d, root |-> 0]
        ELSE The({
          IF w0.err # "" THEN [err |-> w0.err, d |-> w0.d, root |-> 0]
          ELSE The({
            IF w1.err # "" THEN [err |-> w1.err, d |-> w1.d, root |-> 0]
            ELSE The({
              IF w2.err # "" THEN [err |-> w2.err, d |-> w2.d, root |-> 0]
              ELSE insertIntoParent(w2.d, isIndex, leafNum, cs[mid + 1].key, a.pageNum, path) :
              w2 \in {WritePage(w1.d, a.pageNum,
                                [right.page EXCEPT !.NextLeaf = leaf.NextLeaf,
                                                   !.PrevLeaf = leafNum])}}) :
            w1 \in {WritePage(w0.d, leafNum, [left.page EXCEPT !.NextLeaf = a.pageNum])}}) :
          w0 \in {IF leaf.NextLeaf = 0 THEN [err |-> "", d |-> a.d]
                  ELSE The({
                    IF next.err # ""
                    THEN [err |-> "failed to read next leaf during split", d |-> a.d]
                    ELSE The({
                      IF w.err # "" THEN [err |-> "failed to update next leaf pointer", d |-> w.d]
                      ELSE w :
                      w \in {WritePage(a.d, leaf.NextLeaf,
                                       [next.page EXCEPT !.PrevLeaf = a.pageNum])}}) :
                    next \in {ReadPage(a.d, leaf.NextLeaf)}})}}) :
        left \in {InsertCells(resetPage(leaf), cs, 1, mid)},
        right \in {InsertCells(resetPage(a.page), cs, mid + 1, Len(cs))}}) :
      cs \in {sortLeafCells(WithNewCell(got, newCell))},
      a \in {AllocatePage(d, getLeafPageType(isIndex), 0)},
      mid \in {SplitMid(Len(got) + 1)}}) :
    got \in {ReadCells(leaf)}})

\* the handle's root after a call that returned r
RootAfter(root, r) == IF r.err = "" /\ r.root # 0 THEN r.root ELSE root

\* BTree.Insert
Insert(d, root, isIndex, key, value) ==
  The({
    IF n.err # "" THEN [err |-> n.err, d |-> d, root |-> root]
    ELSE The({
      IF leaf.err # "" THEN [err |-> leaf.err, d |-> d, root |-> root]
      ELSE IF SearchCell(leaf.page, key).found
           THEN [err |-> "duplicate key", d |-> d, root |-> root]
      ELSE IF CanFit(leaf.page, LeafCellSize(NewLeafCell(key, value)))
           THEN The({
             IF ins.err # "" THEN [err |-> ins.err, d |-> d, root |-> root]
             ELSE The({[err |-> w.err, d |-> w.d, root |-> root] :
                       w \in {WritePage(d, n.leaf, ins.page)}}) :
             ins \in {InsertLeafCell(leaf.page, NewLeafCell(key, value))}})
      ELSE The({[err |-> r.err, d |-> r.d, root |-> RootAfter(root, r)] :
                r \in {insertAndSplit(d, isIndex, n.leaf, leaf.page,
                                      NewLeafCell(key, value), n.path)}}) :
      leaf \in {ReadPage(d, n.leaf)}}) :
    n \in {navigateWithPath(d, root, key)}})

\* BTree.Delete
Delete(d, root, key) ==
  The({
    IF n.err # "" THEN [err |-> n.err, d |-> d, root |-> root]
    ELSE The({
      IF leaf.err # "" THEN [err |-> leaf.err, d |-> d, root |-> root]
      ELSE The({
        IF s.err # "" THEN [err |-> s.err, d |-> d, root |-> root]
        ELSE IF ~s.found THEN [err |-> "key not found", d |-> d, root |-> root]
        ELSE The({[err |-> w.err, d |-> w.d, root |-> root] :
                  w \in {WritePage(d, n.leaf, deleteCell(leaf.page, s.idx))}}) :
        s \in {SearchCell(leaf.page, key)}}) :
      leaf \in {ReadPage(d, n.leaf)}}) :
    n \in {navigateToLeaf(d, root, key)}})

\* BTree.Update; c is the old cell of the key, ins the leaf with the old
\* cell deleted and the new one inserted (in memory).  The leaf read again
\* before the insert path is driven again is the page already read.
Update(d, root, isIndex, key, newValue) ==
  The({
    IF n.err # "" THEN [err |-> n.err, d |-> d, root |-> root]
    ELSE The({
      IF c.err # "" THEN [err |-> c.err, d |-> d, root |-> root]
      ELSE The({
        IF ins.err = ""
        THEN The({[err |-> w.err, d |-> w.d, root |-> root] :
                  w \in {WritePage(d, n.leaf, ins.page)}})
        ELSE IF LeafCellSize(NewLeafCell(key, newValue)) <= LeafCellSize(c.cell)
                \/ CanFit(leaf.page, LeafCellSize(NewLeafCell(key, newValue)))
             THEN [err |-> ins.err, d |-> d, root |-> root]
        ELSE The({
          IF n2.err # "" THEN [err |-> n2.err, d |-> d, root |-> root]
          ELSE The({
            IF leaf2.err # "" THEN [err |-> leaf2.err, d |-> d, root |-> root]
            ELSE The({[err |-> r.err, d |-> r.d, root |-> RootAfter(root, r)] :
                      r \in {insertAndSplit(d, isIndex, n2.leaf, leaf2.page,
                                            NewLeafCell(key, newValue), n2.path)}}) :
            leaf2 \in {ReadPage(d, n2.leaf)}}) :
          n2 \in {navigateWithPath(d, root, key)}}) :
        ins \in {InsertLeafCell(deleteCell(leaf.page, c.idx), NewLeafCell(key, newValue))}}) :
      leaf \in {ReadPage(d, n.leaf)}, c \in {LookUp(ReadPage(d, n.leaf), key)}}) :
    n \in {navigateToLeaf(d, root, key)}})

\* BTree.findLeftmostLeaf; the loop is cut after depth pages
RECURSIVE findLeftmostLeafFrom(_, _, _)
findLeftmostLeafFrom(d, currentNum, depth) ==
  The({
    IF r.err # "" THEN [err |-> r.err, leaf |-> 0]
    ELSE IF isLeaf(r.page.PageType) THEN [err |-> "", leaf |-> currentNum]
    ELSE The({
      IF c.err # "" THEN [err |-> "failed to get first interior cell", leaf |-> 0]
      ELSE IF c.cell.child = 0 THEN [err |-> "invalid child pointer (0) encountered", leaf |-> 0]
      ELSE IF depth = 0 THEN [err |-> "descent does not end", leaf |-> 0]
      ELSE findLeftmostLeafFrom(d, c.cell.child, depth - 1) :
      c \in {IF NumCells(r.page) > 0 THEN GetInteriorCell(r.page, 0)
             ELSE [err |-> "", cell |-> NewInteriorCell(NoKey, r.page.RightmostPointer)]}}) :
    r \in {ReadPage(d, currentNum)}})

findLeftmostLeaf(d, root) == findLeftmostLeafFrom(d, root, Len(d))

\* the entries of the cells read
Entries(got) == [i \in 1..Len(got) |-> [Key |-> got[i].cell.key, Value |-> got[i].cell.value]]

\* BTree.Scan: the walk along nextLeaf from the leftmost leaf
RECURSIVE ScanFrom(_, _, _, _)
ScanFrom(d, currentNum, visited, result) ==
  IF currentNum = 0 THEN [err |-> "", entries |-> result]
  ELSE IF currentNum \in visited
       THEN [err |-> "circular reference detected in leaf chain", entries |-> << >>]
  ELSE The({
    IF r.err # "" THEN [err |-> "failed to read page during scan", entries |-> << >>]
    ELSE The({
      IF \E i \in 1..Len(got) : got[i].err # ""
      THEN [err |-> "failed to read cell", entries |-> << >>]
      ELSE ScanFrom(d, r.page.NextLeaf, visited \cup {currentNum}, result \o Entries(got)) :
      got \in {ReadCells(r.page)}}) :
    r \in {ReadPage(d, currentNum)}})

Scan(d, root) ==
  The({IF l.err # "" THEN [err |-> l.err, entries |-> << >>]
       ELSE ScanFrom(d, l.leaf, {}, << >>) :
       l \in {findLeftmostLeaf(d, root)}})

\* the inner loop of RangeSearch over the cells of one leaf, from cell i:
\* done says that a key above end was met
RECURSIVE RangeCells(_, _, _, _, _)
RangeCells(got, i, start, end, result) ==
  IF i > Len(got) THEN [done |-> FALSE, entries |-> result]
  ELSE IF Compare(got[i].cell.key, start) < 0 THEN RangeCells(got, i + 1, start, end, result)
  ELSE IF Compare(got[i].cell.key, end) > 0 THEN [done |-> TRUE, entries |-> result]
  ELSE RangeCells(got, i + 1, start, end,
                  Append(result, [Key |-> got[i].cell.key, Value |-> got[i].cell.value]))

RECURSIVE RangeFrom(_, _, _, _, _, _)
RangeFrom(d, currentNum, visited, start, end, result) ==
  IF currentNum = 0 THEN [err |-> "", entries |-> result]
  ELSE IF currentNum \in visited
       THEN [err |-> "circular reference detected in leaf chain", entries |-> << >>]
  ELSE The({
    IF r.err # "" THEN [err |-> "failed to read page during range search", entries |-> << >>]
    ELSE The({
      IF \E i \in 1..Len(got) : got[i].err # ""
      THEN [err |-> "failed to read cell", entries |-> << >>]
      ELSE The({
        IF rc.done THEN [err |-> "", entries |-> rc.entries]
        ELSE RangeFrom(d, r.page.NextLeaf, visited \cup {currentNum}, start, end, rc.entries) :
        rc \in {RangeCells(got, 1, start, end, result)}}) :
      got \in {ReadCells(r.page)}}) :
    r \in {ReadPage(d, currentNum)}})

\* BTree.RangeSearch
RangeSearch(d, root, start, end) ==
  The({IF n.err # "" THEN [err |-> n.err, entries |-> << >>]
       ELSE RangeFrom(d, n.leaf, {}, start, end, << >>) :
       n \in {navigateToLeaf(d, root, start)}})

\* The loops of Scan and RangeSearch, one round at a time.  w is the state of
\* the loop: currentNum, the visited map and the result so far; done says
\* that the call has returned, with err and result.
\* a loop of Scan that does not record the pages it visits
scanLoopForgetful(d, w) ==
  IF w.currentNum = 0 THEN [w EXCEPT !.done = TRUE]
  ELSE The({
    IF r.err # "" THEN [w EXCEPT !.done = TRUE, !.err = "failed to read page during scan",
                                 !.result = << >>]
    ELSE [w EXCEPT !.result = @ \o Entries(ReadCells(r.page)),
                   !.currentNum = r.page.NextLeaf] :
    r \in {ReadPage(d, w.currentNum)}})
scanLoop(d, w) ==
  IF w.currentNum = 0 THEN [w EXCEPT !.done = TRUE]
  ELSE IF w.currentNum \in w.visited
       THEN [w EXCEPT !.done = TRUE, !.err = "circular reference detected in leaf chain",
                      !.result = << >>]
  ELSE The({
    IF r.err # "" THEN [w EXCEPT !.done = TRUE, !.err = "failed to read page during scan",
                                 !.result = << >>]
    ELSE The({
      IF \E i \in 1..Len(got) : got[i].err # ""
      THEN [w EXCEPT !.done = TRUE, !.err = "failed to read cell", !.result = << >>]
      ELSE [w EXCEPT !.visited = @ \cup {w.currentNum},
                     !.result = @ \o Entries(got),
                     !.currentNum = r.page.NextLeaf] :
      got \in {ReadCells(r.page)}}) :
    r \in {ReadPage(d, w.currentNum)}})

rangeLoop(d, w) ==
  IF w.currentNum = 0 THEN [w EXCEPT !.done = TRUE]
  ELSE IF w.currentNum \in w.visited
       THEN [w EXCEPT !.done = TRUE, !.err = "circular reference detected in leaf chain",
                      !.result = << >>]
  ELSE The({
    IF r.err # "" THEN [w EXCEPT !.done = TRUE, !.err = "failed to read page during range search",
                                 !.result = << >>]
    ELSE The({
      IF \E i \in 1..Len(got) : got[i].err # ""
      THEN [w EXCEPT !.done = TRUE, !.err = "failed to read cell", !.result = << >>]
      ELSE The({
        IF rc.done THEN [w EXCEPT !.visited = @ \cup {w.currentNum}, !.done = TRUE,
                                  !.result = rc.entries]
        ELSE [w EXCEPT !.visited = @ \cup {w.currentNum},
                       !.result = rc.entries,
                       !.currentNum = r.page.NextLeaf] :
        rc \in {RangeCells(got, 1, w.start, w.end, w.result)}}) :
      got \in {ReadCells(r.page)}}) :
    r \in {ReadPage(d, w.currentNum)}})

(***************************************************************************)
(* Rows.  A Go value held in an interface{} is [go |-> its dynamic type,   *)
(* v |-> the value].  A row is the map Row.Values, one [Name, Type, Value] *)
(* per column.  Stored rows and catalog records are JSON: a stored value   *)
(* is [len |-> the length of the JSON text, ...the fields it carries].     *)
(***************************************************************************)
\* a string none of whose characters repeats the one before it
Str(cs) == [i \in 1..Len(cs) |-> [c |-> cs[i], n |-> 1]]

TypeInt == "INT"
TypeText == "TEXT"

\* the length of the decimal text of n, of a JSON boolean, of a column type
RECURSIVE DecLen(_)
DecLen(n) == IF n < 10 THEN 1 ELSE 1 + DecLen(n \div 10)
BoolLen(b) == IF b THEN 4 ELSE 5
TypeLen(t) == IF t = TypeInt THEN 3 ELSE 4

GoInt(i) == [go |-> "int", v |-> i]
GoString(str) == [go |-> "string", v |-> str]
GoNil == [go |-> "nil", v |-> 0]

\* json.Marshal of an interface{} value and json.Unmarshal into one: every
\* JSON number comes back as a float64
MarshalValue(value) ==
  IF value.go = "nil" THEN [kind |-> "null", v |-> 0, len |-> 4]
  ELSE IF value.go = "string" THEN [kind |-> "string", v |-> value.v, len |-> StrLen(value.v) + 2]
  ELSE [kind |-> "number", v |-> value.v, len |-> DecLen(value.v)]

UnmarshalValue(j) ==
  IF j.kind = "null" THEN GoNil
  ELSE IF j.kind = "string" THEN GoString(j.v)
  ELSE [go |-> "float64", v |-> j.v]

\* the entry of a map with one [Name, ...] record per name
NoRowValue == [Name |-> << >>, Type |-> "", Value |-> GoNil]
Lookup(entries, name, none) ==
  IF \E i \in 1..Len(entries) : entries[i].Name = name
  THEN [exists |-> TRUE, e |-> entries[CHOOSE i \in 1..Len(entries) : entries[i].Name = name]]
  ELSE [exists |-> FALSE, e |-> none]

\* "name":{"type":"T","value":V} for each column, in braces, with commas
RECURSIVE RowJSONLen(_)
RowJSONLen(row) ==
  IF Len(row) = 0 THEN 2
  ELSE (IF Len(row) = 1 THEN 0 ELSE 1 + RowJSONLen(Tail(row)) - 2) + 2
       + 1 + StrLen(row[1].Name) + 11 + TypeLen(row[1].Type) + 10
       + MarshalValue(row[1].Value).len + 1

SerializeRow(row) ==
  [len |-> RowJSONLen(row),
   json |-> [i \in 1..Len(row) |->
               [Name |-> row[i].Name, Type |-> row[i].Type, Value |-> MarshalValue(row[i].Value)]]]

DeserializeRow(data) ==
  IF "json" \notin DOMAIN data THEN [err |-> "invalid character", row |-> << >>]
  ELSE [err |-> "",
        row |-> [i \in 1..Len(data.json) |->
                   [Name |-> data.json[i].Name, Type |-> data.json[i].Type,
                    Value |-> UnmarshalValue(data.json[i].Value)]]]

ExtractColumnValue(row, columnName) ==
  The({IF ~f.exists THEN [err |-> "column not found in row", value |-> GoNil, type |-> ""]
       ELSE [err |-> "", value |-> f.e.Value, type |-> f.e.Type] :
       f \in {Lookup(row, columnName, NoRowValue)}})

CreateRow(schema, values) ==
  IF Len(values) # Len(schema.Columns) THEN [err |-> "value count mismatch", row |-> << >>]
  ELSE IF \E i \in 1..Len(values) : schema.Columns[i].NotNull /\ values[i].go = "nil"
       THEN [err |-> "column cannot be NULL", row |-> << >>]
  ELSE [err |-> "",
        row |-> [i \in 1..Len(values) |->
                   [Name |-> schema.Columns[i].Name, Type |-> schema.Columns[i].Type,
                    Value |-> values[i]]]]

\* ValidateRow, "" when the row is accepted
ValidateRow(row, schema) ==
  IF \E i \in 1..Len(schema.Columns) :
       \E f \in {Lookup(row, schema.Columns[i].Name, NoRowValue)} :
          f.exists /\ f.e.Type # schema.Columns[i].Type
  THEN "column type mismatch"
  ELSE IF \E i \in 1..Len(schema.Columns) :
            \E f \in {Lookup(row, schema.Columns[i].Name, NoRowValue)} :
               schema.Columns[i].NotNull /\ (~f.exists \/ f.e.Value.go = "nil")
       THEN "column is required (NOT NULL)"
  ELSE ""

ValueToKey(value, columnType) ==
  IF columnType = TypeInt
  THEN IF value.go \in {"int64", "float64", "int"} THEN [err |-> "", key |-> NewIntKey(value.v)]
       ELSE [err |-> "invalid int value type", key |-> NoKey]
  ELSE IF columnType = TypeText
       THEN IF value.go = "string" THEN [err |-> "", key |-> NewTextKey(value.v)]
            ELSE [err |-> "invalid text value type", key |-> NoKey]
  ELSE [err |-> "unsupported column type", key |-> NoKey]

GetPrimaryKeyValue(row, schema) ==
  IF \A i \in 1..Len(schema.Columns) : ~schema.Columns[i].PrimaryKey
  THEN [err |-> "no primary key column found", key |-> NoKey]
  ELSE The({IF x.err # "" THEN [err |-> x.err, key |-> NoKey] ELSE ValueToKey(x.value, x.type) :
            x \in {ExtractColumnValue(row,
                     schema.Columns[CHOOSE i \in 1..Len(schema.Columns) :
                                      /\ schema.Columns[i].PrimaryKey
                                      /\ \A j \in 1..(i - 1) : ~schema.Columns[j].PrimaryKey].Name)}})

(***************************************************************************)
(* The catalog.  A Catalog object is [tree |-> the root of its B+Tree      *)
(* handle, tableCache, indexCache]; a cache is the set of the records it   *)
(* holds, one per name (the caches of the model never fill, so nothing is  *)
(* evicted).  An operation takes the file d and the catalog c and returns  *)
(* the error, the file and the catalog after the call.                     *)
(***************************************************************************)
SystemCatalogTable == Str(<<97, 110, 117, 98, 105, 115, 95, 99, 97, 116, 97, 108, 111, 103>>)

NoColumn == [Name |-> << >>, Type |-> "", PrimaryKey |-> FALSE, NotNull |-> FALSE, Unique |-> FALSE]
NoSchema == [Name |-> << >>, Columns |-> << >>, RootPage |-> 0, Version |-> 0]
NoIndex ==
  [Name |-> << >>, TableName |-> << >>, ColumnName |-> << >>, Unique |-> FALSE, RootPage |-> 0]

\* json.Marshal of a Column, of []Column, of a Schema, of an IndexMetadata
ColumnJSONLen(col) ==
  9 + StrLen(col.Name) + 10 + TypeLen(col.Type) + 16 + BoolLen(col.PrimaryKey)
  + 12 + BoolLen(col.NotNull) + 10 + BoolLen(col.Unique) + 1

RECURSIVE ColumnsJSONLen(_)
ColumnsJSONLen(columns) ==
  IF Len(columns) = 0 THEN 0
  ELSE ColumnJSONLen(columns[1])
       + (IF Len(columns) = 1 THEN 0 ELSE 1 + ColumnsJSONLen(Tail(columns)))

SchemaJSONLen(schema) ==
  9 + StrLen(schema.Name) + 13 + ColumnsJSONLen(schema.Columns)
  + 14 + DecLen(schema.RootPage) + 11 + DecLen(schema.Version) + 1

IndexJSONLen(index) ==
  9 + StrLen(index.Name) + 16 + StrLen(index.TableName) + 17 + StrLen(index.ColumnName)
  + 11 + BoolLen(index.Unique) + 13 + DecLen(index.RootPage) + 1

\* json.Marshal of the metadataEntry {"type":"table" or "index","data":...}
MetadataEntry(type, data, dataLen) ==
  [len |-> 9 + 5 + 9 + dataLen + 1, Type |-> type, Data |-> data]

stringToKey(str) == NewTextKey(str)

\* lruCache.Get / Put / Delete
CacheGet(cache, name, none) ==
  IF \E x \in cache : x.Name = name
  THEN [exists |-> TRUE, value |-> CHOOSE x \in cache : x.Name = name]
  ELSE [exists |-> FALSE, value |-> none]
CachePut(cache, value) == {x \in cache : x.Name # value.Name} \cup {value}
CacheDelete(cache, name) == {x \in cache : x.Name # name}

\* the record of a catalog entry read by Search, checked as
\* loadTableFromDisk and loadIndexFromDisk check it
LoadFromDisk(d, c, name, type, none) ==
  The({IF s.err # "" THEN [err |-> "not found in catalog", value |-> none]
       ELSE IF "Type" \notin DOMAIN s.value
            THEN [err |-> "failed to unmarshal metadata", value |-> none]
       ELSE IF s.value.Type # type THEN [err |-> "entry is of another type", value |-> none]
       ELSE IF s.value.Data.RootPage = 0 THEN [err |-> "invalid root page (0)", value |-> none]
       ELSE IF s.value.Data.RootPage > Len(d)
            THEN [err |-> "root page out of range", value |-> none]
       ELSE [err |-> "", value |-> s.value.Data] :
       s \in {Search(d, c.tree, stringToKey(name))}})

loadTableFromDisk(d, c, name) == LoadFromDisk(d, c, name, "table", NoSchema)
loadIndexFromDisk(d, c, name) == LoadFromDisk(d, c, name, "index", NoIndex)

getTableUnsafe(d, c, name) ==
  The({IF hit.exists THEN [err |-> "", table |-> hit.value, c |-> c]
       ELSE The({IF t.err # "" THEN [err |-> t.err, table |-> NoSchema, c |-> c]
                 ELSE [err |-> "", table |-> t.value,
                       c |-> [c EXCEPT !.tableCache = CachePut(c.tableCache, t.value)]] :
                 t \in {loadTableFromDisk(d, c, name)}}) :
       hit \in {CacheGet(c.tableCache, name, NoSchema)}})

getIndexUnsafe(d, c, name) ==
  The({IF hit.exists THEN [err |-> "", index |-> hit.value, c |-> c]
       ELSE The({IF t.err # "" THEN [err |-> t.err, index |-> NoIndex, c |-> c]
                 ELSE [err |-> "", index |-> t.value,
                       c |-> [c EXCEPT !.indexCache = CachePut(c.indexCache, t.value)]] :
                 t \in {loadIndexFromDisk(d, c, name)}}) :
       hit \in {CacheGet(c.indexCache, name, NoIndex)}})

tableExistsUnsafe(d, c, name) ==
  CacheGet(c.tableCache, name, NoSchema).exists \/ loadTableFromDisk(d, c, name).err = ""

indexExistsUnsafe(d, c, name) ==
  CacheGet(c.indexCache, name, NoIndex).exists \/ loadIndexFromDisk(d, c, name).err = ""

\* saveTable / saveIndex: the record goes into the catalog tree
SaveEntry(d, c, name, entry) ==
  The({[err |-> IF r.err # "" THEN "failed to insert into catalog" ELSE "",
        d |-> r.d, c |-> [c EXCEPT !.tree = r.root]] :
       r \in {Insert(d, c.tree, FALSE, stringToKey(name), entry)}})

saveTable(d, c, schema) ==
  SaveEntry(d, c, schema.Name, MetadataEntry("table", schema, SchemaJSONLen(schema)))

saveIndex(d, c, index) ==
  SaveEntry(d, c, index.Name, MetadataEntry("index", index, IndexJSONLen(index)))

\* the loop of populateIndex from entry i on; root is the index tree's root
RECURSIVE PopulateFrom(_, _, _, _, _)
PopulateFrom(d, root, index, entries, i) ==
  IF i > Len(entries) THEN [err |-> "", d |-> d, root |-> root]
  ELSE The({
    IF row.err # "" THEN [err |-> "failed to deserialize row", d |-> d, root |-> root]
    ELSE The({
      IF x.err # "" THEN [err |-> "failed to extract column value", d |-> d, root |-> root]
      ELSE The({
        IF k.err # "" THEN [err |-> "failed to convert value to key", d |-> d, root |-> root]
        ELSE The({
          IF ins.err # ""
          THEN [err |-> IF index.Unique /\ ins.err = "duplicate key"
                        THEN "duplicate value for unique index"
                        ELSE "failed to insert into index",
                d |-> ins.d, root |-> ins.root]
          ELSE PopulateFrom(ins.d, ins.root, index, entries, i + 1) :
          ins \in {Insert(d, root, TRUE, k.key, Encode(entries[i].Key))}}) :
        k \in {ValueToKey(x.value, x.type)}}) :
      x \in {ExtractColumnValue(row.row, index.ColumnName)}}) :
    row \in {DeserializeRow(entries[i].Value)}})

populateIndex(d, index, table, indexTree) ==
  IF LoadBTree(d, table.RootPage, FALSE) # ""
  THEN [err |-> "failed to load table tree", d |-> d, root |-> indexTree]
  ELSE The({IF sc.err # "" THEN [err |-> "failed to scan table", d |-> d, root |-> indexTree]
            ELSE PopulateFrom(d, indexTree, index, sc.entries, 1) :
            sc \in {Scan(d, table.RootPage)}})

GetColumn(schema, name) == Lookup(schema.Columns, name, NoColumn)

createIndexUnsafe(d, c, name, tableName, columnName, unique) ==
  IF name = << >> THEN [err |-> "index name cannot be empty", d |-> d, c |-> c]
  ELSE IF indexExistsUnsafe(d, c, name) THEN [err |-> "index already exists", d |-> d, c |-> c]
  ELSE The({
    IF t.err # "" THEN [err |-> t.err, d |-> d, c |-> c]
    ELSE IF ~GetColumn(t.table, columnName).exists
         THEN [err |-> "column not found in table", d |-> d, c |-> t.c]
    ELSE The({
      IF tree.err # "" THEN [err |-> "failed to allocate index tree", d |-> tree.d, c |-> t.c]
      ELSE The({
        IF pop.err # "" THEN [err |-> "failed to populate index", d |-> pop.d, c |-> t.c]
        ELSE The({
          IF sv.err # "" THEN sv
          ELSE [err |-> "", d |-> sv.d,
                c |-> [sv.c EXCEPT !.indexCache = CachePut(sv.c.indexCache, index)]] :
          sv \in {saveIndex(pop.d, t.c, index)}}) :
        index \in {[Name |-> name, TableName |-> tableName, ColumnName |-> columnName,
                    Unique |-> unique, RootPage |-> tree.root]},
        pop \in {populateIndex(tree.d,
                               [Name |-> name, TableName |-> tableName,
                                ColumnName |-> columnName, Unique |-> unique,
                                RootPage |-> tree.root],
                               t.table, tree.root)}}) :
      tree \in {NewBTree(d, TRUE)}}) :
    t \in {getTableUnsafe(d, c, tableName)}})

\* fmt.Sprintf("pk_%s_%s", table, column) and fmt.Sprintf("uq_%s_%s", ...)
AutoIndexName(prefix, tableName, columnName) ==
  StrConcat(StrConcat(StrConcat(prefix, tableName), Str(<<95>>)), columnName)
PkPrefix == Str(<<112, 107, 95>>)
UqPrefix == Str(<<117, 113, 95>>)

\* the loop of createAutoIndexes from column i on
RECURSIVE createAutoIndexesFrom(_, _, _, _)
createAutoIndexesFrom(d, c, schema, i) ==
  IF i > Len(schema.Columns) THEN [err |-> "", d |-> d, c |-> c]
  ELSE IF ~schema.Columns[i].PrimaryKey /\ ~schema.Columns[i].Unique
       THEN createAutoIndexesFrom(d, c, schema, i + 1)
  ELSE The({IF r.err # "" THEN r ELSE createAutoIndexesFrom(r.d, r.c, schema, i + 1) :
            r \in {createIndexUnsafe(d, c,
                     AutoIndexName(IF schema.Columns[i].PrimaryKey THEN PkPrefix ELSE UqPrefix,
                                   schema.Name, schema.Columns[i].Name),
                     schema.Name, schema.Columns[i].Name, TRUE)}})

\* a createAutoIndexes that indexes the primary key column only
createAutoIndexesPrimaryOnly(d, c, schema) ==
  createAutoIndexesFrom(d, c,
    [schema EXCEPT !.Columns = SelectSeq(schema.Columns, LAMBDA col : col.PrimaryKey)], 1)
createAutoIndexes(d, c, schema) == createAutoIndexesFrom(d, c, schema, 1)

\* validateColumns, "" when the columns are accepted
validateColumns(columns) ==
  IF \E i \in 1..Len(columns) : columns[i].Name = << >> THEN "column name cannot be empty"
  ELSE IF \E i, j \in 1..Len(columns) : i < j /\ columns[i].Name = columns[j].Name
       THEN "duplicate column name"
  ELSE IF Cardinality({i \in 1..Len(columns) : columns[i].PrimaryKey}) > 1
       THEN "table can have at most one primary key"
  ELSE ""

\* a deleteTableUnsafe that leaves the table in the cache
deleteTableUnsafeKeepsCache(d, c, name) ==
  The({IF r.err # "" THEN [err |-> "failed to delete table from catalog", d |-> r.d, c |-> c]
       ELSE [err |-> "", d |-> r.d, c |-> c] :
       r \in {Delete(d, c.tree, stringToKey(name))}})
\* Catalog.deleteTableUnsafe
deleteTableUnsafe(d, c, name) ==
  The({IF r.err # "" THEN [err |-> "failed to delete table from catalog", d |-> r.d, c |-> c]
       ELSE [err |-> "", d |-> r.d, c |-> [c EXCEPT !.tableCache = CacheDelete(c.tableCache, name)]] :
       r \in {Delete(d, c.tree, stringToKey(name))}})

\* Catalog.CreateTable
CreateTable(d, c, name, columns) ==
  IF name = << >> THEN [err |-> "table name cannot be empty", d |-> d, c |-> c]
  ELSE IF tableExistsUnsafe(d, c, name) THEN [err |-> "table already exists", d |-> d, c |-> c]
  ELSE IF Len(columns) = 0
       THEN [err |-> "table must have at least one column", d |-> d, c |-> c]
  ELSE IF validateColumns(columns) # "" THEN [err |-> validateColumns(columns), d |-> d, c |-> c]
  ELSE The({
    IF tree.err # "" THEN [err |-> "failed to allocate tree", d |-> tree.d, c |-> c]
    ELSE The({
      IF sv.err # "" THEN sv
      ELSE The({
        IF ai.err # ""
        THEN The({[err |-> "failed to create auto indexes", d |-> del.d, c |-> del.c] :
                  del \in {deleteTableUnsafe(ai.d, ai.c, name)}})
        ELSE ai :
        ai \in {createAutoIndexes(sv.d,
                  [sv.c EXCEPT !.tableCache =
                     CachePut(sv.c.tableCache,
                              [Name |-> name, Columns |-> columns,
                               RootPage |-> tree.root, Version |-> 1])],
                  [Name |-> name, Columns |-> columns,
                   RootPage |-> tree.root, Version |-> 1])}}) :
      sv \in {saveTable(tree.d, c, [Name |-> name, Columns |-> columns,
                                    RootPage |-> tree.root, Version |-> 1])}}) :
    tree \in {NewBTree(d, FALSE)}})

\* the schema the catalog records for its own tree
CatalogColumns ==
  << [Name |-> Str(<<101, 110, 116, 114, 121, 95, 116, 121, 112, 101>>), Type |-> TypeText,
      PrimaryKey |-> FALSE, NotNull |-> TRUE, Unique |-> FALSE],
     [Name |-> Str(<<110, 97, 109, 101>>), Type |-> TypeText,
      PrimaryKey |-> TRUE, NotNull |-> TRUE, Unique |-> FALSE],
     [Name |-> Str(<<109, 101, 116, 97, 100, 97, 116, 97>>), Type |-> TypeText,
      PrimaryKey |-> FALSE, NotNull |-> TRUE, Unique |-> FALSE] >>

\* Catalog.initialize
initialize(d) ==
  The({
    IF tree.err # ""
    THEN [err |-> "failed to create catalog tree", d |-> tree.d,
          c |-> [tree |-> 0, tableCache |-> {}, indexCache |-> {}]]
    ELSE The({[err |-> IF sv.err # "" THEN "failed to save catalog schema" ELSE "",
               d |-> sv.d, c |-> sv.c] :
              sv \in {saveTable(tree.d,
                        [tree |-> tree.root,
                         tableCache |-> {[Name |-> SystemCatalogTable, Columns |-> CatalogColumns,
                                          RootPage |-> tree.root, Version |-> 1]},
                         indexCache |-> {}],
                        [Name |-> SystemCatalogTable, Columns |-> CatalogColumns,
                         RootPage |-> tree.root, Version |-> 1])}}) :
    tree \in {NewBTree(d, FALSE)}})

\* NewCatalog on a pager that holds the file d; verifyCatalog counts the
\* entries of a Scan
NewCatalog(d) ==
  IF Len(d) = 0 THEN initialize(d)
  ELSE IF LoadBTree(d, 1, FALSE) # ""
       THEN [err |-> "failed to load catalog", d |-> d,
             c |-> [tree |-> 0, tableCache |-> {}, indexCache |-> {}]]
  ELSE The({[err |-> IF sc.err # "" THEN "catalog verification failed"
                     ELSE IF Len(sc.entries) = 0 THEN "catalog is empty"
                     ELSE "",
             d |-> d, c |-> [tree |-> 1, tableCache |-> {}, indexCache |-> {}]] :
            sc \in {Scan(d, 1)}})

\* Catalog.LoadTable: a new Table [schema, btree] on the recorded root
NoTable == [schema |-> NoSchema, btree |-> 0]
LoadTable(d, c, name) ==
  The({IF t.err # "" THEN [err |-> t.err, c |-> t.c, table |-> NoTable]
       ELSE IF LoadBTree(d, t.table.RootPage, FALSE) # ""
            THEN [err |-> "failed to load table B-tree", c |-> t.c, table |-> NoTable]
       ELSE [err |-> "", c |-> t.c, table |-> [schema |-> t.table, btree |-> t.table.RootPage]] :
       t \in {getTableUnsafe(d, c, name)}})

\* Catalog.GetTableIndexes: the index records of a table, in Scan order
RECURSIVE IndexesOf(_, _)
IndexesOf(entries, tableName) ==
  IF Len(entries) = 0 THEN << >>
  ELSE IF "Type" \in DOMAIN entries[1].Value /\ entries[1].Value.Type = "index"
          /\ entries[1].Value.Data.TableName = tableName
       THEN <<entries[1].Value.Data>> \o IndexesOf(Tail(entries), tableName)
  ELSE IndexesOf(Tail(entries), tableName)

GetTableIndexes(d, c, tableName) ==
  The({IF sc.err # "" THEN << >> ELSE IndexesOf(sc.entries, tableName) :
       sc \in {Scan(d, c.tree)}})

\* Catalog.dropIndexUnsafe
dropIndexUnsafe(d, c, name) ==
  IF ~indexExistsUnsafe(d, c, name) THEN [err |-> "index does not exist", d |-> d, c |-> c]
  ELSE The({IF r.err # "" THEN [err |-> "failed to delete index metadata", d |-> r.d, c |-> c]
            ELSE [err |-> "", d |-> r.d,
                  c |-> [c EXCEPT !.indexCache = CacheDelete(c.indexCache, name)]] :
            r \in {Delete(d, c.tree, stringToKey(name))}})

\* the loop of DropTable over the indexes of the table, from index i on
RECURSIVE dropIndexesFrom(_, _, _, _)
dropIndexesFrom(d, c, indexes, i) ==
  IF i > Len(indexes) THEN [err |-> "", d |-> d, c |-> c]
  ELSE The({IF r.err # "" THEN [err |-> "failed to drop index", d |-> r.d, c |-> r.c]
            ELSE dropIndexesFrom(r.d, r.c, indexes, i + 1) :
            r \in {dropIndexUnsafe(d, c, indexes[i].Name)}})

\* a DropTable that leaves the indexes of the table in the catalog
DropTableKeepsIndexes(d, c, name) ==
  IF name = SystemCatalogTable THEN [err |-> "cannot drop system catalog", d |-> d, c |-> c]
  ELSE IF ~tableExistsUnsafe(d, c, name) THEN [err |-> "table does not exist", d |-> d, c |-> c]
  ELSE deleteTableUnsafe(d, c, name)
\* Catalog.DropTable
DropTable(d, c, name) ==
  IF name = SystemCatalogTable THEN [err |-> "cannot drop system catalog", d |-> d, c |-> c]
  ELSE IF ~tableExistsUnsafe(d, c, name) THEN [err |-> "table does not exist", d |-> d, c |-> c]
  ELSE The({
    IF di.err # "" THEN di
    ELSE The({IF r.err # "" THEN [err |-> "failed to delete table metadata", d |-> r.d, c |-> di.c]
              ELSE [err |-> "", d |-> r.d,
                    c |-> [di.c EXCEPT !.tableCache = CacheDelete(di.c.tableCache, name)]] :
              r \in {Delete(di.d, di.c.tree, stringToKey(name))}}) :
    di \in {dropIndexesFrom(d, c, GetTableIndexes(d, c, name), 1)}})

(***************************************************************************)
(* Tables.  A Table is [schema, btree |-> the root of its B+Tree handle];  *)
(* the handle of an index is made anew from the index record for each use. *)
(***************************************************************************)
getIndexTree(d, idxMeta) ==
  IF LoadBTree(d, idxMeta.RootPage, TRUE) # "" THEN "failed to load index" ELSE ""

getPrimaryKeyColumnName(schema) ==
  IF \A i \in 1..Len(schema.Columns) : ~schema.Columns[i].PrimaryKey THEN << >>
  ELSE schema.Columns[CHOOSE i \in 1..Len(schema.Columns) :
                        /\ schema.Columns[i].PrimaryKey
                        /\ \A j \in 1..(i - 1) : ~schema.Columns[j].PrimaryKey].Name

\* the key of a row in an index: ValueToKey of row.Values[column] with the
\* type of the schema's column
IndexKey(t, idxMeta, row) ==
  The({IF ~col.exists THEN [err |-> "column not found in schema", key |-> NoKey]
       ELSE ValueToKey(Lookup(row, idxMeta.ColumnName, NoRowValue).e.Value, col.e.Type) :
       col \in {GetColumn(t.schema, idxMeta.ColumnName)}})

\* the loop of rollbackInsert from index i on; the file after it
RECURSIVE RollbackInsertFrom(_, _, _, _, _, _)
RollbackInsertFrom(d, t, indexes, i, insertedIndexes, row) ==
  IF i > Len(indexes) THEN d
  ELSE IF indexes[i].Name \notin insertedIndexes \/ getIndexTree(d, indexes[i]) # ""
       THEN RollbackInsertFrom(d, t, indexes, i + 1, insertedIndexes, row)
  ELSE The({
    IF k.err # "" THEN RollbackInsertFrom(d, t, indexes, i + 1, insertedIndexes, row)
    ELSE RollbackInsertFrom(Delete(d, indexes[i].RootPage, k.key).d, t, indexes, i + 1,
                            insertedIndexes, row) :
    k \in {IndexKey(t, indexes[i], row)}})

\* Table.rollbackInsert; errors are only printed
rollbackInsert(d, c, t, primaryKey, insertedIndexes, row) ==
  The({RollbackInsertFrom(d1, t, GetTableIndexes(d1, c, t.schema.Name), 1, insertedIndexes, row) :
       d1 \in {Delete(d, t.btree, primaryKey).d}})

\* the loop of Table.Insert over the indexes, from index i on
RECURSIVE InsertIndexesFrom(_, _, _, _, _, _, _, _)
InsertIndexesFrom(d, c, t, indexes, i, primaryKey, insertedIndexes, row) ==
  IF i > Len(indexes) THEN [err |-> "", d |-> d]
  ELSE IF indexes[i].ColumnName = getPrimaryKeyColumnName(t.schema)
       THEN InsertIndexesFrom(d, c, t, indexes, i + 1, primaryKey, insertedIndexes, row)
  ELSE IF getIndexTree(d, indexes[i]) # ""
       THEN [err |-> getIndexTree(d, indexes[i]),
             d |-> rollbackInsert(d, c, t, primaryKey, insertedIndexes, row)]
  ELSE The({
    IF k.err # ""
    THEN [err |-> IF GetColumn(t.schema, indexes[i].ColumnName).exists
                  THEN "failed to create index key" ELSE k.err,
          d |-> rollbackInsert(d, c, t, primaryKey, insertedIndexes, row)]
    ELSE The({
      IF ins.err # ""
      THEN [err |-> IF indexes[i].Unique THEN "unique constraint violation"
                    ELSE "failed to insert into index",
            d |-> rollbackInsert(ins.d, c, t, primaryKey, insertedIndexes, row)]
      ELSE InsertIndexesFrom(ins.d, c, t, indexes, i + 1, primaryKey,
                             insertedIndexes \cup {indexes[i].Name}, row) :
      ins \in {Insert(d, indexes[i].RootPage, TRUE, k.key, Encode(primaryKey))}}) :
    k \in {IndexKey(t, indexes[i], row)}})

\* Table.Insert: the error, the file and the Table after the call
TableInsert(d, c, t, values) ==
  The({
    IF cr.err # "" THEN [err |-> "invalid row", d |-> d, t |-> t]
    ELSE IF ValidateRow(cr.row, t.schema) # ""
         THEN [err |-> "row validation failed", d |-> d, t |-> t]
    ELSE The({
      IF pk.err # "" THEN [err |-> "failed to get primary key", d |-> d, t |-> t]
      ELSE The({
        IF ins.err # "" THEN [err |-> "failed to insert into table", d |-> ins.d, t |-> t]
        ELSE The({[err |-> ix.err, d |-> ix.d, t |-> [t EXCEPT !.btree = ins.root]] :
                  ix \in {InsertIndexesFrom(ins.d, c, [t EXCEPT !.btree = ins.root],
                                            GetTableIndexes(ins.d, c, t.schema.Name), 1,
                                            pk.key, {}, cr.row)}}) :
        ins \in {Insert(d, t.btree, FALSE, pk.key, SerializeRow(cr.row))}}) :
      pk \in {GetPrimaryKeyValue(cr.row, t.schema)}}) :
    cr \in {CreateRow(t.schema, values)}})

\* Table.Get
TableGet(d, t, key) ==
  The({IF s.err # "" THEN [err |-> "row not found in table", row |-> << >>]
       ELSE The({IF r.err # "" THEN [err |-> "failed to deserialize row", row |-> << >>]
                 ELSE r :
                 r \in {DeserializeRow(s.value)}}) :
       s \in {Search(d, t.btree, key)}})

\* the loop of Table.Delete over the indexes, from index i on: the file and
\* the names of the indexes the row was deleted from
RECURSIVE DeleteIndexesFrom(_, _, _, _, _, _)
DeleteIndexesFrom(d, t, indexes, i, row, deletedIndexes) ==
  IF i > Len(indexes) THEN [d |-> d, deletedIndexes |-> deletedIndexes]
  ELSE IF indexes[i].ColumnName = getPrimaryKeyColumnName(t.schema)
          \/ getIndexTree(d, indexes[i]) # ""
       THEN DeleteIndexesFrom(d, t, indexes, i + 1, row, deletedIndexes)
  ELSE The({
    IF k.err # "" THEN DeleteIndexesFrom(d, t, indexes, i + 1, row, deletedIndexes)
    ELSE The({
      IF del.err # "" THEN DeleteIndexesFrom(del.d, t, indexes, i + 1, row, deletedIndexes)
      ELSE DeleteIndexesFrom(del.d, t, indexes, i + 1, row,
                             deletedIndexes \cup {indexes[i].Name}) :
      del \in {Delete(d, indexes[i].RootPage, k.key)}}) :
    k \in {IndexKey(t, indexes[i], row)}})

\* the loop of rollbackDelete from index i on; the file after it
RECURSIVE RollbackDeleteFrom(_, _, _, _, _, _, _)
RollbackDeleteFrom(d, t, indexes, i, primaryKey, row, deletedIndexes) ==
  IF i > Len(indexes) THEN d
  ELSE IF indexes[i].Name \notin deletedIndexes \/ getIndexTree(d, indexes[i]) # ""
       THEN RollbackDeleteFrom(d, t, indexes, i + 1, primaryKey, row, deletedIndexes)
  ELSE The({
    IF k.err # "" THEN RollbackDeleteFrom(d, t, indexes, i + 1, primaryKey, row, deletedIndexes)
    ELSE RollbackDeleteFrom(Insert(d, indexes[i].RootPage, TRUE, k.key, Encode(primaryKey)).d,
                            t, indexes, i + 1, primaryKey, row, deletedIndexes) :
    k \in {IndexKey(t, indexes[i], row)}})

rollbackDelete(d, c, t, primaryKey, row, deletedIndexes) ==
  RollbackDeleteFrom(d, t, GetTableIndexes(d, c, t.schema.Name), 1, primaryKey, row,
                     deletedIndexes)

\* Table.Delete: the error and the file after the call
TableDelete(d, c, t, key) ==
  The({
    IF g.err # "" THEN [err |-> "row not found", d |-> d]
    ELSE The({
      The({IF del.err # ""
           THEN [err |-> "failed to delete row from table",
                 d |-> rollbackDelete(del.d, c, t, key, g.row, ix.deletedIndexes)]
           ELSE [err |-> "", d |-> del.d] :
           del \in {Delete(ix.d, t.btree, key)}}) :
      ix \in {DeleteIndexesFrom(d, t, GetTableIndexes(d, c, t.schema.Name), 1, g.row, {})}}) :
    g \in {TableGet(d, t, key)}})

\* Table.GetByIndex
GetByIndex(d, c, t, indexName, value) ==
  The({
    IF ~idx.exists THEN [err |-> "index not found on table", row |-> << >>]
    ELSE IF ~GetColumn(t.schema, idx.e.ColumnName).exists
         THEN [err |-> "column not found", row |-> << >>]
    ELSE The({
      IF k.err # "" THEN [err |-> "failed to create index key", row |-> << >>]
      ELSE IF getIndexTree(d, idx.e) # "" THEN [err |-> getIndexTree(d, idx.e), row |-> << >>]
      ELSE The({
        IF s.err # "" THEN [err |-> "value not found in index", row |-> << >>]
        ELSE IF "tag" \notin DOMAIN s.value
             THEN [err |-> "failed to decode primary key from index", row |-> << >>]
        ELSE The({IF pk.err # ""
                  THEN [err |-> "failed to decode primary key from index", row |-> << >>]
                  ELSE TableGet(d, t, pk.key) :
                  pk \in {DecodeKey(s.value)}}) :
        s \in {Search(d, idx.e.RootPage, k.key)}}) :
      k \in {ValueToKey(value, GetColumn(t.schema, idx.e.ColumnName).e.Type)}}) :
    idx \in {Lookup(GetTableIndexes(d, c, t.schema.Name), indexName, NoIndex)}})

\* fmt.Sprintf("%v", value) of a number that is not negative, of a string
RECURSIVE DecText(_)
DecText(n) ==
  IF n < 10 THEN <<[c |-> 48 + n, n |-> 1]>>
  ELSE StrConcat(DecText(n \div 10), <<[c |-> 48 + (n % 10), n |-> 1]>>)

SprintfV(value) == IF value.go = "string" THEN value.v ELSE DecText(value.v)

\* ValuesEqual: values of one kind are compared as such, a string only with
\* a string, and any other pair by the text that %v prints
ValuesEqual(a, b) ==
  IF a.go = "nil" /\ b.go = "nil" THEN TRUE
  ELSE IF a.go = "nil" \/ b.go = "nil" THEN FALSE
  ELSE IF a.go = "string" THEN b.go = "string" /\ StrCompare(a.v, b.v) = 0
  ELSE StrCompare(SprintfV(a), SprintfV(b)) = 0

\* what Table.Update notes of an index it has changed
indexUpdate(name, oldKey, newKey) == [name |-> name, oldKey |-> oldKey, newKey |-> newKey]

\* the loop of rollbackUpdate from update i on; the file after it.  Only
\* the new key is deleted.
RECURSIVE RollbackUpdateFrom(_, _, _, _, _)
RollbackUpdateFrom(d, c, t, updates, i) ==
  IF i > Len(updates) THEN d
  ELSE The({
    IF ~idx.exists \/ getIndexTree(d, idx.e) # ""
    THEN RollbackUpdateFrom(d, c, t, updates, i + 1)
    ELSE RollbackUpdateFrom(Delete(d, idx.e.RootPage, updates[i].newKey).d, c, t, updates, i + 1) :
    idx \in {Lookup(GetTableIndexes(d, c, t.schema.Name), updates[i].name, NoIndex)}})

rollbackUpdate(d, c, t, updates) == RollbackUpdateFrom(d, c, t, updates, 1)

\* the loop of Table.Update over the indexes, from index i on: the error,
\* the file and the updates noted.  A failure to delete the old key is
\* only printed.
RECURSIVE UpdateIndexesFrom(_, _, _, _, _, _, _, _, _)
UpdateIndexesFrom(d, c, t, indexes, i, key, oldRow, newRow, updatedIndexes) ==
  IF i > Len(indexes) THEN [err |-> "", d |-> d, updatedIndexes |-> updatedIndexes]
  ELSE IF \/ indexes[i].ColumnName = getPrimaryKeyColumnName(t.schema)
          \/ ValuesEqual(Lookup(oldRow, indexes[i].ColumnName, NoRowValue).e.Value,
                         Lookup(newRow, indexes[i].ColumnName, NoRowValue).e.Value)
       THEN UpdateIndexesFrom(d, c, t, indexes, i + 1, key, oldRow, newRow, updatedIndexes)
  ELSE IF getIndexTree(d, indexes[i]) # ""
       THEN [err |-> getIndexTree(d, indexes[i]),
             d |-> rollbackUpdate(d, c, t, updatedIndexes), updatedIndexes |-> updatedIndexes]
  ELSE IF ~GetColumn(t.schema, indexes[i].ColumnName).exists
       THEN [err |-> "column not found",
             d |-> rollbackUpdate(d, c, t, updatedIndexes), updatedIndexes |-> updatedIndexes]
  ELSE The({
    IF oldKey.err # ""
    THEN [err |-> "failed to create old index key",
          d |-> rollbackUpdate(d, c, t, updatedIndexes), updatedIndexes |-> updatedIndexes]
    ELSE The({
      IF newKey.err # ""
      THEN [err |-> "failed to create new index key",
            d |-> rollbackUpdate(del.d, c, t, updatedIndexes),
            updatedIndexes |-> updatedIndexes]
      ELSE The({
        IF ins.err # ""
        THEN [err |-> IF indexes[i].Unique THEN "unique constraint violation"
                      ELSE "failed to insert into index",
              d |-> rollbackUpdate(ins.d, c, t, updatedIndexes),
              updatedIndexes |-> updatedIndexes]
        ELSE UpdateIndexesFrom(ins.d, c, t, indexes, i + 1, key, oldRow, newRow,
                 Append(updatedIndexes, indexUpdate(indexes[i].Name, oldKey.key, newKey.key))) :
        ins \in {Insert(del.d, indexes[i].RootPage, TRUE, newKey.key, Encode(key))}}) :
      del \in {Delete(d, indexes[i].RootPage, oldKey.key)},
      newKey \in {ValueToKey(Lookup(newRow, indexes[i].ColumnName, NoRowValue).e.Value,
                             GetColumn(t.schema, indexes[i].ColumnName).e.Type)}}) :
    oldKey \in {ValueToKey(Lookup(oldRow, indexes[i].ColumnName, NoRowValue).e.Value,
                           GetColumn(t.schema, indexes[i].ColumnName).e.Type)}})

\* Table.Update: the error, the file and the Table after the call
TableUpdate(d, c, t, key, newValues) ==
  The({
    IF g.err # "" THEN [err |-> "row not found", d |-> d, t |-> t]
    ELSE IF cr.err # "" THEN [err |-> "invalid row", d |-> d, t |-> t]
    ELSE IF ValidateRow(cr.row, t.schema) # ""
         THEN [err |-> "row validation failed", d |-> d, t |-> t]
    ELSE The({
      IF newPK.err # "" THEN [err |-> "failed to get primary key", d |-> d, t |-> t]
      ELSE IF Compare(key, newPK.key) # 0
           THEN [err |-> "cannot update primary key value", d |-> d, t |-> t]
      ELSE The({
        IF ix.err # "" THEN [err |-> ix.err, d |-> ix.d, t |-> t]
        ELSE The({
          IF up.err # ""
          THEN [err |-> "failed to update row in table",
                d |-> rollbackUpdate(up.d, c, t, ix.updatedIndexes), t |-> t]
          ELSE [err |-> "", d |-> up.d, t |-> [t EXCEPT !.btree = up.root]] :
          up \in {Update(ix.d, t.btree, FALSE, key, SerializeRow(cr.row))}}) :
        ix \in {UpdateIndexesFrom(d, c, t, GetTableIndexes(d, c, t.schema.Name), 1, key,
                                  g.row, cr.row, << >>)}}) :
      newPK \in {GetPrimaryKeyValue(cr.row, t.schema)}}) :
    g \in {TableGet(d, t, key)}, cr \in {CreateRow(t.schema, newValues)}})

(***************************************************************************)
(* One B+Tree in a file of its own, used through one handle.               *)
(*   pages     the file: page n is pages[n]                                *)
(*   root      BTree.root of the handle                                    *)
(*   savedRoot the root page number the owner of the tree recorded when    *)
(*             the tree was created (GetRootPage after NewBTree)           *)
(*   present   for each key, the value of the last successful Insert or    *)
(*             Update not followed by a successful Delete (NoValue: none)  *)
(*   distinct  no Insert has succeeded for a key that was present          *)
(*   last      the last call and what it returned                          *)
(***************************************************************************)
VARIABLES pages, root, savedRoot, present, distinct, last, cat, tbl, created,
          file, pager, written, allocated, procs, it, yielded, walk, cache, recency

vars == <<pages, root, savedRoot, present, distinct, last, cat, tbl, created,
          file, pager, written, allocated, procs, it, yielded, walk, cache, recency>>

\* the pager on its file: the file, the Pager, the page last written with
\* success under each page number and the page numbers that AllocatePage has
\* returned on this Pager, and the goroutines that are inside AllocatePage;
\* these are idle where the file is `pages'
pagerVars == <<file, pager, written, allocated, procs>>
storeVars == <<pages, root, savedRoot, present, distinct, cat, tbl, created>>

\* an Iterator on the tree with what the loop over it has yielded, the loop
\* of a Scan or RangeSearch that is under way, and one lruCache with the order
\* in which its keys were last accessed
iterVars == <<it, yielded, walk>>
cacheVars == <<cache, recency>>

NoFile ==
  [whole |-> 0, rest |-> 0, magic |-> << >>, version |-> 0, data |-> << >>,
   fill |-> OnDisk(NewPage(0))]
PagerIdle == file = NoFile /\ pager = NoPager /\ written = << >> /\ allocated = {}
             /\ procs = << >>

NoIterator == [btree |-> 0, currentPage |-> 0, currentCell |-> 0, done |-> TRUE]
NoWalk == [op |-> "none", currentNum |-> 0, visited |-> {}, result |-> << >>,
           start |-> NoKey, end |-> NoKey, done |-> TRUE, err |-> ""]
IterIdle ==
  /\ it = NoIterator
  /\ yielded = [file |-> << >>, entries |-> << >>, ended |-> FALSE]
  /\ walk = NoWalk
CacheIdle == cache = << >> /\ recency = << >>

\* the variables of the catalog and table layer, and those of the single tree
dbVars == <<cat, tbl, created>>
treeVars == <<root, savedRoot, distinct>>

NoCatalog == [tree |-> 0, tableCache |-> {}, indexCache |-> {}]

Keys == 1..MaxKey
UpdateKeys == 1..MaxUpdateKey
Values == [id : 1..2, len : {SmallLen, BigLen}]
InsertValues == {v \in Values : v.id = 1}
BigValues == {v \in InsertValues : v.len = BigLen}
UpdateValues == {v \in Values : v.id = 2}

Init ==
  \E t \in {NewBTree(<< >>, FALSE)} :
     /\ pages = t.d
     /\ root = t.root
     /\ savedRoot = t.root
     /\ present = [k \in Keys |-> NoValue]
     /\ distinct = TRUE /\ PagerIdle /\ IterIdle /\ CacheIdle
     /\ last = [op |-> "NewBTree", key |-> 0, err |-> t.err]
     /\ cat = NoCatalog
     /\ tbl = NoTable
     /\ created = {}

\* tree.Insert(NewIntKey(k), v) for some k in K and v in V
InsertStep(K, V) ==
  \E k \in K, v \in V :
    \E r \in {Insert(pages, root, FALSE, NewIntKey(k), v)} :
       /\ Len(r.d) <= MaxPages
       /\ pages' = r.d
       /\ root' = r.root
       /\ present' = IF r.err = "" THEN [present EXCEPT ![k] = v] ELSE present
       /\ distinct' = (distinct /\ (r.err = "" => present[k] = NoValue))
       /\ last' = [op |-> "Insert", key |-> k, err |-> r.err]
       /\ UNCHANGED <<pagerVars, iterVars, cacheVars, savedRoot, dbVars>>

DoInsert == InsertStep(Keys, InsertValues)
DoInsertBig == InsertStep(Keys, BigValues)
DoInsertFew == InsertStep(UpdateKeys, InsertValues)
\* values whose leaf cell does not fit in an empty leaf page: by one byte, with
\* a cell of 65534 bytes, and beyond 16 bits
OversizeValues ==
  {[id |-> 1, len |-> l] : l \in {PageSize - LeafHeaderSize - 18, U16 - 19, U16}}

\* tree.Insert(NewIntKey(k), v) for a value that is too long
DoInsertOversize ==
  \E k \in Keys, v \in OversizeValues :
    \E r \in {Insert(pages, root, FALSE, NewIntKey(k), v)} :
       /\ Len(r.d) <= MaxPages
       /\ pages' = r.d
       /\ root' = r.root
       /\ present' = IF r.err = "" THEN [present EXCEPT ![k] = v] ELSE present
       /\ distinct' = (distinct /\ (r.err = "" => present[k] = NoValue))
       /\ last' = [op |-> "Insert", key |-> k, err |-> r.err, len |-> v.len]
       /\ UNCHANGED <<pagerVars, iterVars, cacheVars, savedRoot, dbVars>>

DoInsertMixed == InsertStep(Keys, {[id |-> 1, len |-> l] : l \in {SmallLen, HugeLen}})

\* tree.Delete(NewIntKey(k))
DoDelete ==
  \E k \in Keys :
    \E r \in {Delete(pages, root, NewIntKey(k))} :
       /\ pages' = r.d
       /\ root' = r.root
       /\ present' = IF r.err = "" THEN [present EXCEPT ![k] = NoValue] ELSE present
       /\ last' = [op |-> "Delete", key |-> k, err |-> r.err]
       /\ UNCHANGED <<pagerVars, iterVars, cacheVars, savedRoot, distinct, dbVars>>

\* tree.Update(NewIntKey(k), v)
DoUpdate ==
  \E k \in UpdateKeys, v \in UpdateValues :
    \E r \in {Update(pages, root, FALSE, NewIntKey(k), v)} :
       /\ Len(r.d) <= MaxPages
       /\ pages' = r.d
       /\ root' = r.root
       /\ present' = IF r.err = "" THEN [present EXCEPT ![k] = v] ELSE present
       /\ last' = [op |-> "Update", key |-> k, err |-> r.err]
       /\ UNCHANGED <<pagerVars, iterVars, cacheVars, savedRoot, distinct, dbVars>>

\* the owner of the tree makes a new handle from the root page number it
\* recorded: storage.LoadBTree(pager, savedRoot, false), as Catalog.LoadTable
\* does with Schema.RootPage
DoLoadBTree ==
  \E e \in {LoadBTree(pages, savedRoot, FALSE)} :
     /\ root' = IF e = "" THEN savedRoot ELSE root
     /\ last' = [op |-> "LoadBTree", key |-> 0, err |-> e]
     /\ UNCHANGED <<pagerVars, iterVars, cacheVars, pages, savedRoot, present, distinct, dbVars>>

Next == DoInsert \/ DoDelete

\* Insert and Delete through one handle
Spec == Init /\ [][Next]_vars

NextMixed == DoInsertMixed \/ DoDelete

\* Insert of small and of huge values, and Delete, through one handle
SpecMixed == Init /\ [][NextMixed]_vars

NextOversize == DoInsertBig \/ DoInsertOversize \/ DoDelete

\* Insert of values that fill a leaf with two cells and of values that are
\* too long for a page, and Delete, through one handle
SpecOversize == Init /\ [][NextOversize]_vars

NextSplit == DoInsertBig \/ DoDelete

\* Insert of values that fill a leaf with two cells, and Delete, through one handle
SpecSplit == Init /\ [][NextSplit]_vars

NextUpdate == DoInsertFew \/ DoUpdate

\* Insert and Update through one handle
SpecUpdate == Init /\ [][NextUpdate]_vars

NextReload == DoInsertBig \/ DoDelete \/ DoLoadBTree

\* Insert and Delete through handles made from the recorded root page
SpecReload == Init /\ [][NextReload]_vars

(***************************************************************************)
(* One database file with its catalog (SpecCatalog), and one table of it   *)
(* with its indexes, used through Table handles (SpecTable).               *)
(*   cat       the Catalog object                                          *)
(*   tbl       the Table handle in use                                     *)
(*   created   the names of the tables and indexes that CreateTable has    *)
(*             created                                                     *)
(*   present   in SpecTable: for each primary key, the values of the row   *)
(*             that a successful Table.Insert stored and no successful     *)
(*             Table.Delete removed (<< >>: none)                          *)
(***************************************************************************)
NameChars == {97, 98}
TableNames == {<<[c |-> ch, n |-> len]>> : ch \in NameChars, len \in {1, BigNameLen}}
IdColumnName == Str(<<105, 100>>)
IdColumn(pk) ==
  [Name |-> IdColumnName, Type |-> TypeInt, PrimaryKey |-> pk, NotNull |-> pk, Unique |-> FALSE]

InitCatalog ==
  \E nc \in {NewCatalog(<< >>)} :
     /\ pages = nc.d
     /\ cat = nc.c
     /\ tbl = NoTable
     /\ created = {}
     /\ present = << >>
     /\ last = [op |-> "NewCatalog", key |-> 0, err |-> nc.err]
     /\ root = 0 /\ savedRoot = 0 /\ distinct = TRUE /\ PagerIdle /\ IterIdle /\ CacheIdle

\* a second column, TEXT UNIQUE, not the primary key
UqColumnName == Str(<<117>>)
UqColumn ==
  [Name |-> UqColumnName, Type |-> TypeText, PrimaryKey |-> FALSE, NotNull |-> FALSE, Unique |-> TRUE]
\* the column lists handed to CreateTable
ColumnLists == {<<IdColumn(FALSE)>>, <<IdColumn(TRUE)>>, <<IdColumn(TRUE), UqColumn>>}

\* the names createAutoIndexes gives the indexes of a column list
AutoIndexNames(name, columns) ==
  {AutoIndexName(IF columns[i].PrimaryKey THEN PkPrefix ELSE UqPrefix, name, columns[i].Name) :
     i \in {j \in 1..Len(columns) : columns[j].PrimaryKey \/ columns[j].Unique}}

\* cat.CreateTable(name, columns) with a name of `names`, a column list of
\* `lists` and a file that has at most cap pages after the call
CreateTableStep(names, lists, cap) ==
  \E name \in names, columns \in lists :
    \E r \in {CreateTable(pages, cat, name, columns)} :
       /\ Len(r.d) <= cap
       /\ pages' = r.d
       /\ cat' = r.c
       /\ created' = IF r.err # "" THEN created
                     ELSE created \cup {[kind |-> "table", name |-> name]}
                          \cup {[kind |-> "index", name |-> n] : n \in AutoIndexNames(name, columns)}
       /\ last' = [op |-> "CreateTable", key |-> 0, err |-> r.err]
       /\ UNCHANGED <<pagerVars, iterVars, cacheVars, tbl, present, treeVars>>

DoCreateTable == CreateTableStep(TableNames, ColumnLists, MaxFilePages)

\* the table names of SpecDrop: a short one and a long one
DropNames == {<<[c |-> 97, n |-> 1]>>, <<[c |-> 98, n |-> BigNameLen]>>}
DoCreateDropped == CreateTableStep(DropNames, ColumnLists, MaxFilePages)

\* the pager is closed, the file opened again and NewCatalog called on it
DoReopen ==
  \E r \in {NewCatalog(pages)} :
     /\ r.err = ""
     /\ cat' = r.c
     /\ last' = [op |-> "NewCatalog", key |-> 0, err |-> r.err]
     /\ UNCHANGED <<pagerVars, iterVars, cacheVars, pages, tbl, created, present, treeVars>>

\* cat.DropTable(name)
DoDropTable ==
  \E name \in DropNames \cup {SystemCatalogTable} :
    \E r \in {DropTable(pages, cat, name)} :
       /\ pages' = r.d
       /\ cat' = r.c
       /\ created' = {x \in created :
                        IF x.kind = "table" THEN x.name # name \/ r.err # ""
                        ELSE indexExistsUnsafe(pages, cat, x.name)
                               => indexExistsUnsafe(r.d, r.c, x.name)}
       /\ last' = [op |-> "DropTable", key |-> 0, err |-> r.err, name |-> name,
                   indexes |-> Len(GetTableIndexes(pages, cat, name))]
       /\ UNCHANGED <<pagerVars, iterVars, cacheVars, tbl, present, treeVars>>

NextCatalog == DoCreateTable \/ DoReopen

\* CreateTable calls and reopening of the file
SpecCatalog == InitCatalog /\ [][NextCatalog]_vars

\* The calls by name.  The tables are those of DropNames, without indexes or
\* with a primary key and a unique column; the index created by hand has the
\* name that the unique column of the short-named table would give its index,
\* and is an index of the long-named table.
ShortName == <<[c |-> 97, n |-> 1]>>
LongName == <<[c |-> 98, n |-> BigNameLen]>>
NamedLists == {<<IdColumn(FALSE)>>, <<IdColumn(TRUE), UqColumn>>}
UqIndexName == AutoIndexName(UqPrefix, ShortName, UqColumnName)
PkIndexName == AutoIndexName(PkPrefix, ShortName, IdColumnName)

DoCreateNamed == CreateTableStep(DropNames, NamedLists, MaxNamePages)

\* cat.CreateIndex("uq_a_u", <long name>, "id", false)
DoCreateNamedIndex ==
  \E r \in {createIndexUnsafe(pages, cat, UqIndexName, LongName, IdColumnName, FALSE)} :
     /\ Len(r.d) <= MaxNamePages
     /\ pages' = r.d
     /\ cat' = r.c
     /\ created' = IF r.err # "" THEN created
                   ELSE created \cup {[kind |-> "index", name |-> UqIndexName]}
     /\ last' = [op |-> "CreateIndex", key |-> 0, err |-> r.err]
     /\ UNCHANGED <<pagerVars, iterVars, cacheVars, tbl, present, treeVars>>

\* cat.DropIndex(name)
DoDropIndex ==
  \E name \in {UqIndexName, PkIndexName} :
    \E r \in {dropIndexUnsafe(pages, cat, name)} :
       /\ pages' = r.d
       /\ cat' = r.c
       /\ created' = IF r.err # "" THEN created
                     ELSE created \ {[kind |-> "index", name |-> name]}
       /\ last' = [op |-> "DropIndex", key |-> 0, err |-> r.err]
       /\ UNCHANGED <<pagerVars, iterVars, cacheVars, tbl, present, treeVars>>

\* cat.GetTable(name)
DoGetTable ==
  \E name \in {ShortName} :
    \E r \in {getTableUnsafe(pages, cat, name)} :
       /\ cat' = r.c
       /\ last' = [op |-> "GetTable", key |-> 0, err |-> r.err]
       /\ UNCHANGED <<pagerVars, iterVars, cacheVars, pages, created, tbl, present, treeVars>>

\* cat.GetIndex(name)
DoGetIndex ==
  \E name \in {UqIndexName} :
    \E r \in {getIndexUnsafe(pages, cat, name)} :
       /\ cat' = r.c
       /\ last' = [op |-> "GetIndex", key |-> 0, err |-> r.err]
       /\ UNCHANGED <<pagerVars, iterVars, cacheVars, pages, created, tbl, present, treeVars>>

NextNames ==
  \/ DoCreateNamed \/ DoCreateNamedIndex \/ DoDropTable \/ DoDropIndex
  \/ DoGetTable \/ DoGetIndex \/ DoReopen

\* tables and indexes created, dropped and looked up by name, and the file
\* opened again
SpecNames == InitCatalog /\ [][NextNames]_vars

NextDrop == DoCreateDropped \/ DoDropTable \/ DoReopen

\* CreateTable and DropTable calls and reopening of the file
SpecDrop == InitCatalog /\ [][NextDrop]_vars

\* the table of SpecTable: t(id INT PRIMARY KEY, c TEXT UNIQUE, p TEXT)
TName == Str(<<116>>)
CName == Str(<<99>>)
PName == Str(<<112>>)
TColumns ==
  << IdColumn(TRUE),
     [Name |-> CName, Type |-> TypeText, PrimaryKey |-> FALSE, NotNull |-> FALSE, Unique |-> TRUE],
     [Name |-> PName, Type |-> TypeText, PrimaryKey |-> FALSE, NotNull |-> FALSE,
      Unique |-> FALSE] >>

RowIds == 1..MaxRowId
RowChars == {97, 98, 99}
\* the rows offered to Table.Insert: (id, one character, p characters "x")
RowValues(id, ch, plen) == <<GoInt(id), GoString(Str(<<ch>>)), GoString(<<[c |-> 120, n |-> plen]>>)>>

InitTable ==
  \E nc \in {NewCatalog(<< >>)} :
    \E ct \in {CreateTable(nc.d, nc.c, TName, TColumns)} :
      \E lt \in {LoadTable(ct.d, ct.c, TName)} :
         /\ pages = ct.d
         /\ cat = lt.c
         /\ tbl = lt.table
         /\ created = {[kind |-> "table", name |-> TName]}
         /\ present = [id \in RowIds |-> << >>]
         /\ last = [op |-> "LoadTable", key |-> 0, err |-> lt.err]
         /\ root = 0 /\ savedRoot = 0 /\ distinct = TRUE /\ PagerIdle /\ IterIdle /\ CacheIdle

\* tbl.Insert(values)
DoTableInsert ==
  \E id \in RowIds, ch \in RowChars, plen \in {BigLen} :
    \E r \in {TableInsert(pages, cat, tbl, RowValues(id, ch, plen))} :
       /\ Len(r.d) <= MaxFilePages
       /\ pages' = r.d
       /\ tbl' = r.t
       /\ present' = IF r.err = "" THEN [present EXCEPT ![id] = RowValues(id, ch, plen)]
                     ELSE present
       /\ last' = [op |-> "TableInsert", key |-> id, err |-> r.err,
                   values |-> RowValues(id, ch, plen)]
       /\ UNCHANGED <<pagerVars, iterVars, cacheVars, cat, created, treeVars>>

\* tbl.Delete(NewIntKey(id))
DoTableDelete ==
  \E id \in RowIds :
    \E r \in {TableDelete(pages, cat, tbl, NewIntKey(id))} :
       /\ pages' = r.d
       /\ present' = IF r.err = "" THEN [present EXCEPT ![id] = << >>] ELSE present
       /\ last' = [op |-> "TableDelete", key |-> id, err |-> r.err]
       /\ UNCHANGED <<pagerVars, iterVars, cacheVars, cat, tbl, created, treeVars>>

\* cat.LoadTable("t"): a new Table handle
DoLoadTable ==
  \E lt \in {LoadTable(pages, cat, TName)} :
     /\ lt.err = ""
     /\ cat' = lt.c
     /\ tbl' = lt.table
     /\ last' = [op |-> "LoadTable", key |-> 0, err |-> lt.err]
     /\ UNCHANGED <<pagerVars, iterVars, cacheVars, pages, created, present, treeVars>>

\* the values of column c offered to Table.Update
UpdateChars == {97, 98}

\* tbl.Update(NewIntKey(id), values)
DoTableUpdate ==
  \E id \in RowIds, ch \in UpdateChars, plen \in {BigLen} :
    \E r \in {TableUpdate(pages, cat, tbl, NewIntKey(id), RowValues(id, ch, plen))} :
       /\ Len(r.d) <= MaxFilePages
       /\ pages' = r.d
       /\ tbl' = r.t
       /\ present' = IF r.err = "" THEN [present EXCEPT ![id] = RowValues(id, ch, plen)]
                     ELSE present
       /\ last' = [op |-> "TableUpdate", key |-> id, err |-> r.err,
                   values |-> RowValues(id, ch, plen)]
       /\ UNCHANGED <<pagerVars, iterVars, cacheVars, cat, created, treeVars>>

NextTable == DoTableInsert \/ DoLoadTable

\* rows inserted through Table handles made from the catalog record
SpecTable == InitTable /\ [][NextTable]_vars

\* a row with NULL in the unique column c
NullRowValues(id, plen) == <<GoInt(id), GoNil, GoString(<<[c |-> 120, n |-> plen]>>)>>

\* tbl.Insert(values) with nil for the unique column c
DoTableInsertNull ==
  \E id \in RowIds, plen \in {SmallLen} :
    \E r \in {TableInsert(pages, cat, tbl, NullRowValues(id, plen))} :
       /\ Len(r.d) <= MaxFilePages
       /\ pages' = r.d
       /\ tbl' = r.t
       /\ present' = IF r.err = "" THEN [present EXCEPT ![id] = NullRowValues(id, plen)]
                     ELSE present
       /\ last' = [op |-> "TableInsert", key |-> id, err |-> r.err,
                   values |-> NullRowValues(id, plen)]
       /\ UNCHANGED <<pagerVars, iterVars, cacheVars, cat, created, treeVars>>

NextNull == DoTableInsert \/ DoTableInsertNull

\* rows with and without NULL in the unique column inserted through one handle
SpecNull == InitTable /\ [][NextNull]_vars

\* the index of SpecIndex: ip on column p, not unique
PIndexName == Str(<<105, 112>>)

\* cat.CreateIndex("ip", "t", "p", false)
DoCreateIndex ==
  \E r \in {createIndexUnsafe(pages, cat, PIndexName, TName, PName, FALSE)} :
     /\ Len(r.d) <= MaxFilePages
     /\ pages' = r.d
     /\ cat' = r.c
     /\ created' = IF r.err # "" THEN created
                   ELSE created \cup {[kind |-> "index", name |-> PIndexName]}
     /\ last' = [op |-> "CreateIndex", key |-> 0, err |-> r.err]
     /\ UNCHANGED <<pagerVars, iterVars, cacheVars, tbl, present, treeVars>>

NextIndex == DoTableInsert \/ DoCreateIndex

\* rows inserted through one handle and a non-unique index created on p
SpecIndex == InitTable /\ [][NextIndex]_vars

NextEdit == DoTableInsert \/ DoTableUpdate

\* rows inserted and updated through one Table handle
SpecEdit == InitTable /\ [][NextEdit]_vars

NextRows == DoTableInsert \/ DoTableDelete

\* rows inserted and deleted through one Table handle
SpecRows == InitTable /\ [][NextRows]_vars

(***************************************************************************)
(* The pager on a file of its own: the file is opened, pages are allocated, *)
(* written and read, the pager is closed and the file opened again.         *)
(***************************************************************************)
\* a database file with k pages after the header, each as AllocatePage of a
\* table leaf left it
DatabaseFile(k) ==
  [whole |-> k + 1, rest |-> 0, magic |-> dbMagicNumber, version |-> 1, data |-> << >>,
   fill |-> OnDisk(NewPage(PageTypeLeafTable))]

\* the file of HugePages pages ends one page before 2^32 bytes
HugePages == PagesPerU32 - 2

InitialFiles ==
  {NoFile, DatabaseFile(1), DatabaseFile(HugePages),
   [DatabaseFile(1) EXCEPT !.rest = 1], [DatabaseFile(1) EXCEPT !.magic = Tail(@)]}

\* the pages offered to WritePage and the page numbers offered
WritePages == {[NewPage(PageTypeLeafTable) EXCEPT !.NextLeaf = x] : x \in 1..2}
PagerPageNums == (0..(MaxPagerPage + 1)) \cup {pager.numPages, pager.numPages + 1}

InitPager ==
  /\ file \in InitialFiles
  /\ pager = NoPager
  /\ written = << >>
  /\ allocated = {}
  /\ procs = << >>
  /\ last = [op |-> "none", key |-> 0, err |-> ""]
  /\ pages = << >> /\ root = 0 /\ savedRoot = 0 /\ present = << >> /\ distinct = TRUE
  /\ cat = NoCatalog /\ tbl = NoTable /\ created = {} /\ IterIdle /\ CacheIdle

\* NewPager(filename)
DoNewPager ==
  \E ok \in BOOLEAN :
    \E r \in {NewPager(file, ok)} :
       /\ ~pager.open
       /\ file' = r.f
       /\ pager' = r.p
       /\ allocated' = {}
       /\ last' = [op |-> "NewPager", key |-> 0, err |-> r.err]
       /\ UNCHANGED <<written, procs, storeVars, iterVars, cacheVars>>

\* pager.Close()
DoClose ==
  /\ pager.open
  /\ pager' = [pager EXCEPT !.open = FALSE]
  /\ last' = [op |-> "Close", key |-> 0, err |-> ""]
  /\ UNCHANGED <<file, written, allocated, procs, storeVars, iterVars, cacheVars>>

\* pager.AllocatePage(pageType, parent)
DoAllocatePage ==
  \E pageType \in {PageTypeLeafTable, PageTypeInteriorTable}, parent \in 0..1, ok \in BOOLEAN :
    \E r \in {PagerAllocatePage(file, pager, pageType, parent, ok)} :
       /\ pager.open
       /\ Cardinality(DOMAIN written \cup {pager.numPages + 1}) <= MaxPagerPage
       /\ file' = r.f
       /\ pager' = r.p
       /\ written' = IF r.err = "" THEN (r.pageNum :> r.f.data[r.pageNum]) @@ written
                     ELSE written
       /\ allocated' = IF r.err = "" THEN allocated \cup {r.pageNum} ELSE allocated
       /\ last' = [op |-> "AllocatePage", key |-> r.pageNum, err |-> r.err,
                   again |-> r.err = "" /\ r.pageNum \in allocated]
       /\ UNCHANGED <<procs, storeVars, iterVars, cacheVars>>

\* pager.WritePage(n, page)
DoWritePage ==
  \E n \in PagerPageNums, page \in WritePages, ok \in BOOLEAN :
    \E r \in {PagerWritePage(file, pager, n, page, ok)} :
       /\ pager.open
       /\ Cardinality(DOMAIN written \cup {n}) <= MaxPagerPage
       /\ file' = r.f
       /\ written' = IF r.err = "" THEN (n :> OnDisk(page)) @@ written ELSE written
       /\ last' = [op |-> "WritePage", key |-> n, err |-> r.err]
       /\ UNCHANGED <<pager, allocated, procs, storeVars, iterVars, cacheVars>>

\* pager.ReadPage(n)
DoReadPage ==
  \E n \in PagerPageNums :
    \E r \in {PagerReadPage(file, pager, n)} :
       /\ pager.open
       /\ last' = [op |-> "ReadPage", key |-> n, err |-> r.err, page |-> r.page]
       /\ UNCHANGED <<file, pager, written, allocated, procs, storeVars, iterVars, cacheVars>>

NextPager == DoNewPager \/ DoClose \/ DoAllocatePage \/ DoWritePage \/ DoReadPage

SpecPager == InitPager /\ [][NextPager]_vars

(***************************************************************************)
(* Goroutines that call AllocatePage on one Pager.  The Pager has no lock, *)
(* so a call is its accesses to numPages and to the file, one at a time:   *)
(* pageNum := p.numPages + 1; file.WriteAt; p.numPages++ as a load and a   *)
(* store.  procs[g] is [pc, pageType, pageNum, loaded, err] of goroutine g.*)
(***************************************************************************)
Goroutines == 1..2

InitRace ==
  \E k \in 0..MaxPagerPage :
    \E r \in {NewPager(DatabaseFile(k), TRUE)} :
       /\ file = r.f
       /\ pager = r.p
       /\ written = << >>
       /\ allocated = {}
       /\ procs = [g \in Goroutines |->
                     [pc |-> "idle", pageType |-> 0, pageNum |-> 0, loaded |-> 0, err |-> ""]]
       /\ last = [op |-> "NewPager", key |-> k, err |-> r.err]
       /\ pages = << >> /\ root = 0 /\ savedRoot = 0 /\ present = << >> /\ distinct = TRUE
       /\ cat = NoCatalog /\ tbl = NoTable /\ created = {} /\ IterIdle /\ CacheIdle

\* pageNum := p.numPages + 1
AllocReadNumPages(g) ==
  \E pageType \in {PageTypeLeafTable, PageTypeInteriorTable} :
     /\ procs[g].pc = "idle"
     /\ procs' = [procs EXCEPT ![g].pc = "write", ![g].pageType = pageType,
                               ![g].pageNum = pager.numPages + 1]
     /\ UNCHANGED <<file, pager, written, allocated, last, storeVars, iterVars, cacheVars>>

\* p.file.WriteAt(page.Data, offset); return when it fails
AllocWriteAt(g) ==
  \E ok \in BOOLEAN :
    \E w \in {WriteAt(file, procs[g].pageNum, OnDisk(NewPage(procs[g].pageType)), ok)} :
       /\ procs[g].pc = "write"
       /\ file' = w.f
       /\ written' = IF w.err = "" THEN (procs[g].pageNum :> g) @@ written ELSE written
       /\ procs' = [procs EXCEPT ![g].pc = IF w.err = "" THEN "load" ELSE "done",
                                 ![g].err = w.err]
       /\ UNCHANGED <<pager, allocated, last, storeVars, iterVars, cacheVars>>

\* p.numPages++ reads numPages ...
AllocLoad(g) ==
  /\ procs[g].pc = "load"
  /\ procs' = [procs EXCEPT ![g].pc = "store", ![g].loaded = pager.numPages]
  /\ UNCHANGED <<file, pager, written, allocated, last, storeVars, iterVars, cacheVars>>

\* ... and writes it; return pageNum, page, nil
AllocStore(g) ==
  /\ procs[g].pc = "store"
  /\ pager' = [pager EXCEPT !.numPages = procs[g].loaded + 1]
  /\ procs' = [procs EXCEPT ![g].pc = "done"]
  /\ UNCHANGED <<file, written, allocated, last, storeVars, iterVars, cacheVars>>

NextRace ==
  \E g \in Goroutines :
    AllocReadNumPages(g) \/ AllocWriteAt(g) \/ AllocLoad(g) \/ AllocStore(g)

SpecRace == InitRace /\ [][NextRace]_vars

(***************************************************************************)
(* The iterator.  An Iterator is [btree |-> the root of its tree handle    *)
(* when it was made, currentPage, currentCell, done].                      *)
(***************************************************************************)
NewIterator(d, rootPage) ==
  The({IF l.err # "" THEN [err |-> l.err, it |-> NoIterator]
       ELSE [err |-> "",
             it |-> [btree |-> rootPage, currentPage |-> l.leaf, currentCell |-> 0,
                     done |-> FALSE]] :
       l \in {findLeftmostLeaf(d, rootPage)}})

\* Iterator.HasNext: the answer and the iterator after the call
HasNext(d, i) ==
  IF i.done THEN [has |-> FALSE, it |-> i]
  ELSE The({IF r.err # "" THEN [has |-> FALSE, it |-> [i EXCEPT !.done = TRUE]]
            ELSE [has |-> i.currentCell < NumCells(r.page), it |-> i] :
            r \in {ReadPage(d, i.currentPage)}})

\* Iterator.Next: the error, the entry and the iterator after the call
IteratorNext(d, i) ==
  The({
    IF ~h.has THEN [err |-> "no more entries", entry |-> [Key |-> NoKey, Value |-> NoValue],
                    it |-> h.it]
    ELSE IF r.err # "" THEN [err |-> r.err, entry |-> [Key |-> NoKey, Value |-> NoValue],
                             it |-> [h.it EXCEPT !.done = TRUE]]
    ELSE The({
      IF c.err # "" THEN [err |-> c.err, entry |-> [Key |-> NoKey, Value |-> NoValue],
                          it |-> [h.it EXCEPT !.done = TRUE]]
      ELSE [err |-> "", entry |-> [Key |-> c.cell.key, Value |-> c.cell.value],
            it |-> [h.it EXCEPT !.currentCell = (i.currentCell + 1) % U16,
                                !.done = (i.currentCell + 1) % U16 >= NumCells(r.page)]] :
      c \in {GetLeafCell(r.page, i.currentCell)}}) :
    h \in {HasNext(d, i)}, r \in {ReadPage(d, i.currentPage)}})

\* tree.NewIterator()
DoNewIterator ==
  \E r \in {NewIterator(pages, root)} :
     /\ it' = r.it
     /\ yielded' = [file |-> pages, entries |-> << >>, ended |-> r.err # ""]
     /\ last' = [op |-> "NewIterator", key |-> 0, err |-> r.err]
     /\ UNCHANGED <<pagerVars, cacheVars, pages, root, savedRoot, present, distinct, dbVars,
                    walk>>

\* one round of the loop  for it.HasNext() { key, value, err := it.Next() ... }
\* which ends when HasNext is false or Next fails
DoIterate ==
  \E h \in {HasNext(pages, it)} :
    \E n \in {IteratorNext(pages, h.it)} :
       /\ it.btree # 0
       /\ ~yielded.ended
       /\ it' = IF h.has THEN n.it ELSE h.it
       /\ yielded' = IF h.has /\ n.err = ""
                     THEN [yielded EXCEPT !.entries = Append(@, n.entry)]
                     ELSE [yielded EXCEPT !.ended = TRUE]
       /\ last' = [op |-> "Iterate", key |-> 0, err |-> IF h.has THEN n.err ELSE ""]
       /\ UNCHANGED <<pagerVars, cacheVars, pages, root, savedRoot, present, distinct, dbVars,
                      walk>>

NextIter == DoInsertBig \/ DoNewIterator \/ DoIterate

\* a tree that is filled through one handle and iterated over
SpecIter == Init /\ [][NextIter]_vars

(***************************************************************************)
(* One lruCache.  Its data is a function from the keys it holds to         *)
(* [value, lastUsed].  evictOldest ranges over a Go map, in an order that  *)
(* differs from run to run: it removes the first key of that order among   *)
(* those with the least lastUsed, here the oldestKey that is chosen.       *)
(***************************************************************************)
lruGet(c, key) ==
  IF key \notin DOMAIN c THEN [exists |-> FALSE, value |-> 0, c |-> c]
  ELSE [exists |-> TRUE, value |-> c[key].value, c |-> [c EXCEPT ![key].lastUsed = @ + 1]]

\* the keys evictOldest can end its loop with
Oldest(c) ==
  {key \in DOMAIN c : \A other \in DOMAIN c : c[key].lastUsed <= c[other].lastUsed}

evictOldest(c, oldestKey) ==
  IF oldestKey # << >> THEN [key \in DOMAIN c \ {oldestKey} |-> c[key]] ELSE c

lruPut(c, maxSize, key, value, oldestKey) ==
  (key :> [value |-> value, lastUsed |-> 0])
    @@ (IF Cardinality(DOMAIN c) >= maxSize /\ key \notin DOMAIN c
        THEN evictOldest(c, oldestKey) ELSE c)

CacheKeys == {Str(<<ch>>) : ch \in {97, 98, 99}}

\* the key moved to the end of the access order
Touch(order, key) == Append(SelectSeq(order, LAMBDA k : k # key), key)

InitCache ==
  /\ cache = << >>
  /\ recency = << >>
  /\ last = [op |-> "newLRUCache", key |-> << >>, err |-> ""]
  /\ pages = << >> /\ root = 0 /\ savedRoot = 0 /\ present = << >> /\ distinct = TRUE
  /\ cat = NoCatalog /\ tbl = NoTable /\ created = {}
  /\ PagerIdle /\ IterIdle

\* cache.Get(key)
DoCacheGet ==
  \E key \in CacheKeys :
    \E r \in {lruGet(cache, key)} :
       /\ key \in DOMAIN cache => cache[key].lastUsed < MaxUses
       /\ cache' = r.c
       /\ recency' = IF r.exists THEN Touch(recency, key) ELSE recency
       /\ last' = [op |-> "Get", key |-> key, err |-> ""]
       /\ UNCHANGED <<pagerVars, iterVars, storeVars>>

\* cache.Put(key, value)
DoCachePut ==
  \E key \in CacheKeys, value \in 1..2 :
    \E oldestKey \in IF cache = << >> THEN {<< >>} ELSE Oldest(cache) :
       /\ cache' = lruPut(cache, MaxCacheSize, key, value, oldestKey)
       /\ recency' = Touch(SelectSeq(recency, LAMBDA k : k \in DOMAIN cache'), key)
       /\ last' = [op |-> "Put", key |-> key, err |-> ""]
       /\ UNCHANGED <<pagerVars, iterVars, storeVars>>

NextCache == DoCacheGet \/ DoCachePut

SpecCache == InitCache /\ [][NextCache]_vars

(***************************************************************************)
(* One page and the handle on it: cells are inserted and deleted, the page  *)
(* is defragmented and reset, and header buffers are read.  The page is    *)
(* pages[1].                                                               *)
(***************************************************************************)
CellKeys == 1..MaxCellKey
\* value lengths of leaf cells: small, more than 255 bytes, and one whose
\* cell size is beyond a u16
CellLens == {SmallLen, BigLen, U16}
CellChildren == {1}

\* the cells offered to a page of the given type
CellsFor(pageType) ==
  IF isLeaf(pageType)
  THEN {NewLeafCell(NewIntKey(k), [id |-> 1, len |-> n]) : k \in CellKeys, n \in CellLens}
  ELSE {NewInteriorCell(NewIntKey(k), c) : k \in CellKeys, c \in CellChildren}

\* the header buffers offered to readHeader
HeaderInputs ==
  [PageType : {PageTypeLeafTable, PageTypeInteriorTable},
   NumCells : {0, PageSize \div 2, U16 \div 2},
   CellContentOffset : {0, PageSize}]

\* the bytes of the live cells of a page
LiveBytes(p) == IF NumCells(p) = 0 THEN 0 ELSE PageSize - PackedOffset(p.cells, NumCells(p))

\* the bytes below the cell content that are neither a live cell nor counted
\* in FragmentedBytes
Leaked(p) == PageSize - p.CellContentOffset - LiveBytes(p) - p.FragmentedBytes

InitPage ==
  \E t \in {PageTypeLeafTable, PageTypeInteriorTable} :
     /\ pages = <<NewPage(t)>>
     /\ root = 0 /\ savedRoot = 0
     /\ present = << >>
     /\ distinct = TRUE /\ PagerIdle /\ IterIdle /\ CacheIdle
     /\ last = [op |-> "NewPage", key |-> 0, err |-> ""]
     /\ cat = NoCatalog
     /\ tbl = NoTable
     /\ created = {}

\* page.InsertLeafCell(cell) / page.InsertInteriorCell(cell).  A cell beyond
\* a u16 is refused and moves cellContentOffset all the same: it is offered
\* while no byte has leaked.
DoInsertCell ==
  \E cell \in CellsFor(pages[1].PageType) :
    \E r \in {insertCell(pages[1], cell)} :
       /\ NumCells(r.page) <= MaxCells
       /\ CellSize(cell) >= U16 => Leaked(pages[1]) = 0
       /\ pages' = <<r.page>>
       /\ last' = [op |-> "insertCell", key |-> cell.key.v, err |-> r.err]
       /\ UNCHANGED <<pagerVars, iterVars, cacheVars, present, dbVars, treeVars>>

\* page.deleteCell(i)
DoDeleteCell ==
  \E i \in 0..NumCells(pages[1]) :
     /\ pages' = IF i >= NumCells(pages[1]) THEN pages ELSE <<deleteCell(pages[1], i)>>
     /\ last' = [op |-> "deleteCell", key |-> i,
                 err |-> IF i >= NumCells(pages[1]) THEN "cell number out of range" ELSE ""]
     /\ UNCHANGED <<pagerVars, iterVars, cacheVars, present, dbVars, treeVars>>

\* page.Defragment()
DoDefragment ==
  /\ pages' = <<Defragment(pages[1])>>
  /\ last' = [op |-> "Defragment", key |-> 0, err |-> "",
              moved |-> Defragment(pages[1]) # pages[1]]
  /\ UNCHANGED <<pagerVars, iterVars, cacheVars, present, dbVars, treeVars>>

\* tree.resetPage(page), as a split does before it refills the page
DoResetPage ==
  /\ pages' = <<resetPage(pages[1])>>
  /\ last' = [op |-> "resetPage", key |-> 0, err |-> ""]
  /\ UNCHANGED <<pagerVars, iterVars, cacheVars, present, dbVars, treeVars>>

\* readHeader on a buffer
DoReadHeader ==
  \E h \in HeaderInputs :
     /\ last' = [op |-> "readHeader", key |-> 0, err |-> readHeader(h), header |-> h]
     /\ UNCHANGED <<pagerVars, iterVars, cacheVars, pages, present, dbVars, treeVars>>

NextPage == DoInsertCell \/ DoDeleteCell \/ DoDefragment \/ DoResetPage \/ DoReadHeader

\* the operations of one page
SpecPage == InitPage /\ [][NextPage]_vars

NextCells == DoInsertCell \/ DoDeleteCell \/ DoDefragment

\* cells inserted into and deleted from one page, and the page defragmented
SpecCells == InitPage /\ [][NextCells]_vars

(***************************************************************************)
(* An interior page that takes one more separator.  The page is the root,  *)
(* page 1 of its file, filled through InsertInteriorCell with separators   *)
(* of SplitKeyLen characters: six of them fit, the seventh does not.       *)
(***************************************************************************)
SplitChars == 98..104
SplitKey(ch) == NewTextKey(<<[c |-> ch, n |-> SplitKeyLen]>>)
\* the cell of separator ch; its child is a page number of its own
SplitCell(ch) == NewInteriorCell(SplitKey(ch), ch - 90)
\* the separators other than ch, ascending
RECURSIVE OtherCells(_, _)
OtherCells(ch, from) ==
  IF from \notin SplitChars THEN << >>
  ELSE (IF from = ch THEN << >> ELSE <<SplitCell(from)>>) \o OtherCells(ch, from + 1)
Reversed(seq) == [i \in 1..Len(seq) |-> seq[Len(seq) + 1 - i]]

InitInterior ==
  \E ch \in SplitChars, n \in {4, 5, 6}, down \in BOOLEAN, rightmost \in {20, 21} :
    \E cs \in {IF down THEN Reversed(SubSeq(OtherCells(ch, 98), 1, n))
                ELSE SubSeq(OtherCells(ch, 98), 1, n)} :
      /\ pages = <<[InsertCells(NewPage(PageTypeInteriorTable), cs, 1, n).page
                     EXCEPT !.RightmostPointer = rightmost]>>
      /\ root = 1 /\ savedRoot = 1
      /\ present = << >>
      /\ distinct = TRUE /\ PagerIdle /\ IterIdle /\ CacheIdle
      /\ last = [op |-> "NewPage", key |-> 0, err |-> "", cell |-> SplitCell(ch), split |-> FALSE]
      /\ cat = NoCatalog
      /\ tbl = NoTable
      /\ created = {}

\* tree.insertIntoParent(leftChild, splitKey, rightChild, path) with the
\* root as the only page of the path
DoInsertIntoParent ==
  \E r \in {insertIntoParent(pages, FALSE, last.cell.child, last.cell.key, 30,
                              <<[pageNum |-> 1, page |-> pages[1]]>>)} :
     /\ last.op = "NewPage"
     /\ pages' = r.d
     /\ root' = IF r.err = "" /\ r.root # 0 THEN r.root ELSE root
     /\ last' = [op |-> "insertIntoParent", key |-> 0, err |-> r.err, cell |-> last.cell,
                 split |-> ~CanFit(pages[1], InteriorCellSize(last.cell))]
     /\ UNCHANGED <<pagerVars, iterVars, cacheVars, present, dbVars, savedRoot, distinct>>

NextInterior == DoInsertIntoParent

\* one separator handed to a root that is an interior page
SpecInterior == InitInterior /\ [][NextInterior]_vars

(***************************************************************************)
(* A file of MaxChain leaf pages whose nextLeaf pointers are anything: 0,  *)
(* a page of the file (before or behind, or the page itself) or a page     *)
(* beyond the end of the file.  Page 1 is the root; page n holds key n.    *)
(***************************************************************************)
ChainLeaf(n, next) ==
  [InsertLeafCell(NewPage(PageTypeLeafTable),
                  NewLeafCell(NewIntKey(n), [id |-> 1, len |-> SmallLen])).page
     EXCEPT !.NextLeaf = next]

InitChain ==
  /\ pages \in {[n \in 1..MaxChain |-> ChainLeaf(n, next[n])] :
                 next \in [1..MaxChain -> 0..(MaxChain + 1)]}
  /\ root = 1 /\ savedRoot = 1
  /\ present = << >>
  /\ distinct = TRUE /\ PagerIdle /\ IterIdle /\ CacheIdle
  /\ last = [op |-> "LoadBTree", key |-> 0, err |-> ""]
  /\ cat = NoCatalog
  /\ tbl = NoTable
  /\ created = {}

\* tree.Scan() up to its loop
DoStartScan ==
  \E l \in {findLeftmostLeaf(pages, root)} :
     /\ walk.done
     /\ walk' = [NoWalk EXCEPT !.op = "Scan", !.currentNum = l.leaf, !.done = l.err # "",
                               !.err = l.err]
     /\ last' = [op |-> "Scan", key |-> 0, err |-> l.err]
     /\ UNCHANGED <<pagerVars, cacheVars, storeVars, it, yielded>>

\* tree.RangeSearch(start, end) up to its loop
DoStartRangeSearch ==
  \E lo \in {1, 2}, hi \in {2, MaxChain} :
    \E n \in {navigateToLeaf(pages, root, NewIntKey(lo))} :
       /\ walk.done
       /\ walk' = [NoWalk EXCEPT !.op = "RangeSearch", !.currentNum = n.leaf,
                                 !.start = NewIntKey(lo), !.end = NewIntKey(hi),
                                 !.done = n.err # "", !.err = n.err]
       /\ last' = [op |-> "RangeSearch", key |-> lo, err |-> n.err]
       /\ UNCHANGED <<pagerVars, cacheVars, storeVars, it, yielded>>

\* one round of the loop  for currentNum != 0 { ... }  of Scan or RangeSearch
DoWalkStep ==
  /\ ~walk.done
  /\ walk' = IF walk.op = "Scan" THEN scanLoop(pages, walk) ELSE rangeLoop(pages, walk)
  /\ last' = [last EXCEPT !.err = walk'.err]
  /\ UNCHANGED <<pagerVars, cacheVars, storeVars, it, yielded>>

NextChain == DoStartScan \/ DoStartRangeSearch \/ DoWalkStep

\* Scan and RangeSearch on a file whose leaf chain is anything; a call that
\* has entered its loop goes on
SpecChain == InitChain /\ [][NextChain]_vars /\ WF_vars(DoWalkStep)

(***************************************************************************)
(* What the tree holds, for the statements below.                          *)
(***************************************************************************)
PresentKeys == {k \in Keys : present[k] # NoValue}

\* the integer keys of a sequence of entries, in order
KeysOf(entries) == [i \in 1..Len(entries) |-> entries[i].Key.v]

Ascending(ks) == \A i \in 1..Len(ks), j \in 1..Len(ks) : i < j => ks[i] < ks[j]

\* the entries whose key is in lo..hi, in order
RECURSIVE FilterRange(_, _, _)
FilterRange(entries, lo, hi) ==
  IF Len(entries) = 0 THEN << >>
  ELSE IF lo <= entries[1].Key.v /\ entries[1].Key.v <= hi
       THEN <<entries[1]>> \o FilterRange(Tail(entries), lo, hi)
  ELSE FilterRange(Tail(entries), lo, hi)

\* the leaf pages reachable from page n by interior-cell child pointers and
\* the rightmost pointer, in at most depth steps
RECURSIVE LeavesUnder(_, _, _)
LeavesUnder(d, n, depth) ==
  IF n = 0 \/ n > Len(d) THEN {}
  ELSE IF isLeaf(d[n].PageType) THEN {n}
  ELSE IF depth = 0 THEN {}
  ELSE UNION {LeavesUnder(d, c, depth - 1) :
              c \in {d[n].cells[i].child : i \in 1..Len(d[n].cells)} \cup {d[n].RightmostPointer}}

\* the leaf chain walked from page n through nextLeaf, as a sequence of page
\* numbers (cut at a page met before)
RECURSIVE ChainFrom(_, _, _)
ChainFrom(d, n, seen) ==
  IF n = 0 \/ n > Len(d) \/ n \in seen THEN << >>
  ELSE <<n>> \o ChainFrom(d, d[n].NextLeaf, seen \cup {n})

LeafChain == ChainFrom(pages, findLeftmostLeaf(pages, root).leaf, {})

LeafKeys(n) == {pages[n].cells[i].key.v : i \in 1..Len(pages[n].cells)}

\* C1: through one handle, Search(k) returns the value inserted for k when k
\* was inserted and not deleted since, and fails with "key not found" for
\* every k never inserted or since deleted.
C1_SearchCoherent ==
  \A k \in Keys :
    \E s \in {Search(pages, root, NewIntKey(k))} :
      IF present[k] # NoValue THEN s.err = "" /\ s.value = present[k]
      ELSE s.err = "key not found"

\* C2: for successful Insert and Delete calls on distinct keys, Scan()
\* returns exactly the currently present keys, each exactly once, in strictly
\* ascending key order.
C2_ScanSortedExact ==
  distinct =>
    \E s \in {Scan(pages, root)} :
      /\ s.err = ""
      /\ Ascending(KeysOf(s.entries))
      /\ {KeysOf(s.entries)[i] : i \in 1..Len(s.entries)} = PresentKeys

\* C3: some page is the root of the tree: the leaf pages reachable from it by
\* child pointers and rightmost pointers are exactly the leaf pages on the
\* chain walked from the leftmost leaf through nextLeaf.
C3_LeavesAreChain ==
  \E r \in 1..Len(pages) :
    LeavesUnder(pages, r, Len(pages)) = {LeafChain[i] : i \in 1..Len(LeafChain)}

\* C6: after a successful Update(k, v2) on a present key k, Search(k) returns
\* v2, Scan() holds exactly one entry for k, and the set of keys is the one
\* before the call.
C6_UpdateReplaces ==
  [][(last'.op = "Update" /\ last'.err = "") =>
       \E s \in {Search(pages', root', NewIntKey(last'.key))},
          before \in {Scan(pages, root)}, after \in {Scan(pages', root')} :
         /\ s.err = "" /\ s.value = present'[last'.key]
         /\ after.err = ""
         /\ Cardinality({i \in 1..Len(after.entries) : after.entries[i].Key.v = last'.key}) = 1
         /\ {KeysOf(after.entries)[i] : i \in 1..Len(after.entries)}
              = {KeysOf(before.entries)[i] : i \in 1..Len(before.entries)}]_vars

\* C7: for every lo and hi, RangeSearch(lo, hi) returns exactly the entries
\* of Scan() whose key is in lo..hi, in the same order.
C7_RangeIsFilteredScan ==
  \A lo \in Keys, hi \in Keys :
    \E s \in {Scan(pages, root)}, r \in {RangeSearch(pages, root, NewIntKey(lo), NewIntKey(hi))} :
      /\ s.err = ""
      /\ r.err = ""
      /\ r.entries = FilterRange(s.entries, lo, hi)

\* C8: after a successful Insert or Delete the leaves form one doubly linked
\* list in key order: no cycle, prev and next are inverse to each other, the
\* leftmost leaf has prevLeaf = 0, the rightmost nextLeaf = 0, and every key
\* of a leaf is smaller than every key of its nextLeaf.
C8_LeafChainOrdered ==
  (last.op \in {"Insert", "Delete"} /\ last.err = "") =>
    /\ Len(LeafChain) > 0
    /\ pages[LeafChain[1]].PrevLeaf = 0
    /\ pages[LeafChain[Len(LeafChain)]].NextLeaf = 0
    /\ \A i \in 1..(Len(LeafChain) - 1) :
         /\ pages[LeafChain[i + 1]].PrevLeaf = LeafChain[i]
         /\ \A x \in LeafKeys(LeafChain[i]), y \in LeafKeys(LeafChain[i + 1]) : x < y

(***************************************************************************)
(* What the catalog and the table hold, for the statements below.          *)
(***************************************************************************)
\* the value that the stored row of primary key id has in a column
StoredValue(id, columnName) ==
  present[id][CHOOSE i \in 1..Len(TColumns) : TColumns[i].Name = columnName]

\* what a B+Tree holds, read from the root page a handle has
Contents(d, rootPage) == Scan(d, rootPage)

\* C4: after a successful Table.Insert, also one that splits the root, the
\* root page number in the catalog record of the table is the root of the
\* table's B+Tree: the Table that LoadTable builds from the record has the
\* root that the handle used for the insert has after the call.
C4_CatalogRootCurrent ==
  (last.op = "TableInsert" /\ last.err = "") =>
    \E lt \in {LoadTable(pages, cat, TName)} :
      lt.err = "" /\ lt.table.btree = tbl.btree

\* C5: after the file is reopened and NewCatalog has loaded the catalog tree
\* from page 1, every table that CreateTable created is found by LoadTable
\* and every index it created by GetIndex.
C5_CatalogSurvivesReopen ==
  (last.op = "NewCatalog" /\ last.err = "") =>
    \A x \in created :
      IF x.kind = "table" THEN LoadTable(pages, cat, x.name).err = ""
      ELSE getIndexUnsafe(pages, cat, x.name).err = ""

\* C9: for every index the catalog lists for the table and every stored
\* row r, GetByIndex(index, r[column]) returns the row that Get(r.pk)
\* returns; for a primary key with no stored row Get fails.
C9_IndexAgreesWithTable ==
  \A id \in RowIds :
    IF present[id] = << >> THEN TableGet(pages, tbl, NewIntKey(id)).err # ""
    ELSE \E direct \in {TableGet(pages, tbl, NewIntKey(id))},
            indexes \in {GetTableIndexes(pages, cat, TName)} :
           /\ direct.err = ""
           /\ \A i \in 1..Len(indexes) :
                \E via \in {GetByIndex(pages, cat, tbl, indexes[i].Name,
                                       StoredValue(id, indexes[i].ColumnName))} :
                   via.err = "" /\ via.row = direct.row

\* C10: Table.Insert of a row with a new primary key whose value in the
\* unique column c equals that of a stored row fails with a unique
\* constraint error, and the main tree and every index then hold what they
\* held before the call.
C10_UniqueViolationRolledBack ==
  [][(/\ last'.op = "TableInsert"
      /\ present[last'.key] = << >>
      /\ \E id \in RowIds : present[id] # << >> /\ present[id][2] = last'.values[2])
     => /\ last'.err = "unique constraint violation"
        /\ Contents(pages', tbl'.btree) = Contents(pages, tbl.btree)
        /\ \E indexes \in {GetTableIndexes(pages, cat, TName)} :
             \A i \in 1..Len(indexes) :
               Contents(pages', indexes[i].RootPage) = Contents(pages, indexes[i].RootPage)]_vars

\* C11: when Table.Update of a stored row fails with a unique constraint
\* error or with a failure of the main-tree update, the main tree and every
\* index hold what they held before the call, and GetByIndex on the unique
\* column with the row's old value returns the row as before the call.
C11_FailedUpdateRolledBack ==
  [][(/\ last'.op = "TableUpdate"
      /\ present[last'.key] # << >>
      /\ last'.err \in {"unique constraint violation", "failed to update row in table"})
     => /\ Contents(pages', tbl'.btree) = Contents(pages, tbl.btree)
        /\ \E indexes \in {GetTableIndexes(pages, cat, TName)} :
             \A i \in 1..Len(indexes) :
               Contents(pages', indexes[i].RootPage) = Contents(pages, indexes[i].RootPage)
        /\ \E uq \in {AutoIndexName(UqPrefix, TName, CName)} :
             GetByIndex(pages', cat, tbl', uq, StoredValue(last'.key, CName))
               = GetByIndex(pages, cat, tbl, uq, StoredValue(last'.key, CName))]_vars

\* C12: when a pager is closed and the same file is opened again, the new
\* pager has the number of pages the closed one had, and ReadPage of every
\* page written through the pager returns what was last written to it.
C12_ReopenKeepsPages ==
  [][(last.op = "Close" /\ last'.op = "NewPager")
     => /\ last'.err = ""
        /\ GetNumPages(pager') = GetNumPages(pager)
        /\ \A n \in DOMAIN written :
             (1 <= n /\ n <= GetNumPages(pager))
               => PagerReadPage(file', pager', n) = [err |-> "", page |-> written[n]]]_vars

\* C14: a successful AllocatePage returns numPages + 1, a page number it has
\* not returned before on this pager, and adds one to numPages; one whose
\* write fails leaves numPages as it was; no call on a pager makes
\* GetNumPages smaller.
C14_AllocateGrows ==
  [][/\ (last'.op = "AllocatePage" /\ last'.err = "")
          => /\ last'.key = GetNumPages(pager) + 1
             /\ ~last'.again
             /\ GetNumPages(pager') = GetNumPages(pager) + 1
     /\ (last'.op = "AllocatePage" /\ last'.err # "")
          => GetNumPages(pager') = GetNumPages(pager)
     /\ last'.op \in {"AllocatePage", "WritePage", "ReadPage", "Close"}
          => GetNumPages(pager') >= GetNumPages(pager)]_vars

\* a second page has been allocated on one pager
C14_Witness ==
  last.op = "AllocatePage" /\ last.err = "" /\ Cardinality(allocated) >= 2

\* C15: ReadPage(n) and WritePage(n, page) with n = 0 or n > numPages return
\* an error and leave the file as it is; no ReadPage, WritePage or
\* AllocatePage changes the header of the file or writes at page 0.
C15_PageZeroReserved ==
  [][/\ (last'.op \in {"ReadPage", "WritePage"}
         /\ (last'.key = 0 \/ last'.key > GetNumPages(pager)))
          => last'.err # "" /\ file' = file
     /\ last'.op \in {"ReadPage", "WritePage", "AllocatePage"}
          => /\ file'.magic = file.magic /\ file'.version = file.version
             /\ 0 \notin DOMAIN file'.data]_vars

\* WritePage(0, page) has been refused on a pager with pages
C15_Witness ==
  last.op = "WritePage" /\ last.key = 0 /\ last.err # "" /\ GetNumPages(pager) > 0

\* C16: NewPager on an empty file writes the header (magic AnubisDB,
\* version 1) and has no pages; on another file it fails when the size is
\* no multiple of PageSize or the magic is wrong, and else succeeds with
\* numPages = size / PageSize - 1.
C16_NewPagerChecksFile ==
  [][last'.op = "NewPager"
     => IF file.whole = 0 /\ file.rest = 0
        THEN last'.err = ""
               => /\ file'.magic = dbMagicNumber /\ file'.version = 1
                  /\ file'.whole = 1 /\ file'.rest = 0 /\ GetNumPages(pager') = 0
        ELSE IF file.rest # 0 \/ file.magic # dbMagicNumber
             THEN last'.err # "" /\ file' = file
        ELSE last'.err = "" /\ GetNumPages(pager') = file.whole - 1]_vars

\* C13: when two AllocatePage calls that run at the same time on one pager
\* have both returned without error, they have returned two different page
\* numbers, each page in the file is the one its caller wrote at that
\* number, and numPages is two more than before the calls.
C13_AllocationsSerialized ==
  (\A g \in Goroutines : procs[g].pc = "done" /\ procs[g].err = "")
    => /\ procs[1].pageNum # procs[2].pageNum
       /\ \A g \in Goroutines :
            /\ written[procs[g].pageNum] = g
            /\ file.data[procs[g].pageNum] = OnDisk(NewPage(procs[g].pageType))
       /\ GetNumPages(pager) = last.key + 2

\* C17: Insert of a key that is present fails with "duplicate key" and
\* changes nothing: the file (every entry, the leaf chain, the number of
\* pages) and the root of the handle are as before the call.
C17_DuplicateInsertRefused ==
  [][(last'.op = "Insert" /\ present[last'.key] # NoValue)
     => /\ last'.err = "duplicate key"
        /\ pages' = pages
        /\ root' = root]_vars

\* the links of a page: its type, parent, leaf chain pointers and, on an
\* interior page, its separators and child pointers
Links(page) ==
  [PageType |-> page.PageType, ParentPage |-> page.ParentPage, NextLeaf |-> page.NextLeaf,
   PrevLeaf |-> page.PrevLeaf, RightmostPointer |-> page.RightmostPointer,
   cells |-> IF isInterior(page.PageType) THEN page.cells ELSE << >>]

\* C18: Delete of a present key succeeds and removes exactly that key:
\* Search of it fails afterwards, Scan returns the other entries as before,
\* in the same order, the file has the same number of pages and every page
\* keeps its links; Delete of an absent key fails with "key not found" and
\* changes nothing.
C18_DeleteRemovesExactly ==
  [][last'.op = "Delete"
     => IF present[last'.key] # NoValue
        THEN /\ last'.err = ""
             /\ Search(pages', root', NewIntKey(last'.key)).err # ""
             /\ Scan(pages', root').entries
                  = SelectSeq(Scan(pages, root).entries,
                              LAMBDA e : e.Key # NewIntKey(last'.key))
             /\ root' = root
             /\ Len(pages') = Len(pages)
             /\ \A n \in 1..Len(pages) : Links(pages'[n]) = Links(pages[n])
        ELSE /\ last'.err = "key not found"
             /\ pages' = pages
             /\ root' = root]_vars

\* C19: the loop that calls Next() while HasNext() is true, on an iterator
\* made on the tree as it is, has yielded the entries of Scan() in the same
\* order when it ends.
C19_IteratorYieldsScan ==
  (it.btree # 0 /\ yielded.ended /\ yielded.file = pages /\ it.btree = root)
    => \E sc \in {Scan(pages, root)} : sc.err = "" /\ yielded.entries = sc.entries

\* C20: when Put of a new key finds the cache at capacity, the entry it
\* removes is the one whose last access (Get or Put) is the oldest: the
\* keys held afterwards are those held before without the least recently
\* accessed one, and the new key.
C20_EvictsLeastRecentlyUsed ==
  [][(/\ last'.op = "Put"
      /\ last'.key \notin DOMAIN cache
      /\ Cardinality(DOMAIN cache) >= MaxCacheSize)
     => DOMAIN cache' = (DOMAIN cache \ {Head(recency)}) \cup {last'.key}]_vars

\* the catalog records that share the B+Tree root of the k-th scanned record
SharesRoot(entries, k) ==
  {j \in 1..Len(entries) : j # k /\ entries[j].Value.Data.RootPage = entries[k].Value.Data.RootPage}

\* the scanned catalog records that are the unique index `indexName` of
\* column `columnName` of table `name`, on an index-type root of their own
AutoIndexRecords(d, entries, indexName, name, columnName) ==
  {k \in 1..Len(entries) :
     /\ entries[k].Value.Type = "index"
     /\ entries[k].Value.Data.Name = indexName
     /\ entries[k].Value.Data.TableName = name
     /\ entries[k].Value.Data.ColumnName = columnName
     /\ entries[k].Value.Data.Unique
     /\ ReadPage(d, entries[k].Value.Data.RootPage).err = ""
     /\ ReadPage(d, entries[k].Value.Data.RootPage).page.PageType
          \in {PageTypeLeafIndex, PageTypeInteriorIndex}
     /\ SharesRoot(entries, k) = {}}

\* C21: whenever CreateTable(t, columns) succeeds, for every column marked
\* PrimaryKey the catalog then holds a unique index pk_<t>_<c> and for every
\* column marked Unique and not primary a unique index uq_<t>_<c>; each is
\* found by GetIndex, listed by GetTableIndexes(t) and has an index-type
\* B+Tree root that no other catalog record uses.
C21_AutoIndexesCreated ==
  \A name \in TableNames, columns \in ColumnLists :
    \A r \in {CreateTable(pages, cat, name, columns)} :
      r.err = "" =>
        \A i \in 1..Len(columns) :
          (columns[i].PrimaryKey \/ columns[i].Unique) =>
            \E n \in {AutoIndexName(IF columns[i].PrimaryKey THEN PkPrefix ELSE UqPrefix,
                                    name, columns[i].Name)} :
              /\ getIndexUnsafe(r.d, r.c, n).err = ""
              /\ \E listed \in {GetTableIndexes(r.d, r.c, name)} :
                   \E k \in 1..Len(listed) : listed[k].Name = n /\ listed[k].Unique
              /\ AutoIndexRecords(r.d, Scan(r.d, r.c.tree).entries, n, name,
                                  columns[i].Name) # {}

\* C21 witness: a CreateTable has succeeded on a table with a primary key
\* column and a unique column, and both of its indexes are listed
C21_Witness ==
  /\ last.op = "CreateTable" /\ last.err = ""
  /\ \E name \in TableNames :
       \E listed \in {GetTableIndexes(pages, cat, name)} :
         /\ \E k \in 1..Len(listed) :
              listed[k].Name = AutoIndexName(PkPrefix, name, IdColumnName)
         /\ \E k \in 1..Len(listed) :
              listed[k].Name = AutoIndexName(UqPrefix, name, UqColumnName)

\* the scanned catalog records that are neither table `name` nor an index of it
OtherRecords(d, c, name) ==
  SelectSeq(Scan(d, c.tree).entries,
            LAMBDA e : IF e.Value.Type = "index" THEN e.Value.Data.TableName # name
                       ELSE e.Value.Data.Name # name)

\* C22: a successful DropTable(t) leaves TableExists(t) false and LoadTable(t)
\* failing, no index of t in the catalog or in the index cache, every other
\* table and index as it was and the number of pages unchanged; DropTable of
\* the system catalog table or of a table that does not exist fails and
\* changes nothing.
C22_DropTableRemovesAll ==
  \A name \in DropNames \cup {SystemCatalogTable} :
    \A r \in {DropTable(pages, cat, name)} :
      /\ r.err = "" =>
           /\ ~tableExistsUnsafe(r.d, r.c, name)
           /\ LoadTable(r.d, r.c, name).err # ""
           /\ GetTableIndexes(r.d, r.c, name) = << >>
           /\ \A x \in r.c.indexCache : x.TableName # name
           /\ OtherRecords(r.d, r.c, name) = OtherRecords(pages, cat, name)
           /\ \A other \in DropNames \ {name} :
                /\ tableExistsUnsafe(r.d, r.c, other) = tableExistsUnsafe(pages, cat, other)
                /\ LoadTable(r.d, r.c, other).table = LoadTable(pages, cat, other).table
                /\ \A x \in cat.indexCache : x.TableName = other => x \in r.c.indexCache
           /\ Len(r.d) = Len(pages)
      /\ (name = SystemCatalogTable \/ ~tableExistsUnsafe(pages, cat, name)) =>
           r.err # "" /\ r.d = pages /\ r.c = cat

\* C22 witness: a DropTable has succeeded on a table that had an index while
\* another table is still in the catalog
C22_Witness ==
  /\ last.op = "DropTable" /\ last.err = "" /\ last.indexes > 0
  /\ ~tableExistsUnsafe(pages, cat, last.name)
  /\ \E other \in DropNames \ {last.name} : tableExistsUnsafe(pages, cat, other)

\* C23: Table.Insert of a row with a new primary key and nil in the unique
\* column c, which is not NOT NULL, succeeds, whatever rows are stored
\* (rows holding nil in c among them).
C23_NullInUniqueAccepted ==
  [][(last'.op = "TableInsert" /\ last'.values[2].go = "nil" /\ present[last'.key] = << >>)
       => last'.err = ""]_vars

\* C24: with the non-unique index ip on column p, Table.Insert of a row with
\* a new primary key and a new value of the unique column c succeeds although
\* its p value equals that of a stored row; and CreateIndex(ip, t, p, false)
\* succeeds on a table in which rows share their p value.
C24_NonUniqueIndexTakesDuplicates ==
  [][/\ (/\ last'.op = "TableInsert"
         /\ present[last'.key] = << >>
         /\ \A id \in RowIds : present[id] # << >> => present[id][2] # last'.values[2]
         /\ indexExistsUnsafe(pages, cat, PIndexName)
         /\ \E id \in RowIds : present[id] # << >> /\ present[id][3] = last'.values[3])
        => last'.err = ""
     /\ (/\ last'.op = "CreateIndex"
         /\ ~indexExistsUnsafe(pages, cat, PIndexName)
         /\ \E i, j \in RowIds : /\ i # j /\ present[i] # << >> /\ present[j] # << >>
                                 /\ present[i][3] = present[j][3])
        => last'.err = ""]_vars

\* C25: on every page of the file and for every i < numCells, GetCellKey(i)
\* returns the key of cell i, that of GetLeafCell(i) on a leaf page and that
\* of GetInteriorCell(i) on an interior page; and findChild returns a child
\* of every interior page without error.
C25_CellKeyIsCellsKey ==
  \A n \in 1..Len(pages) :
    /\ \A i \in 0..(NumCells(pages[n]) - 1) :
         /\ GetCellKey(pages[n], i).err = ""
         /\ GetCellKey(pages[n], i).key =
              (IF isLeaf(pages[n].PageType) THEN GetLeafCell(pages[n], i).cell.key
               ELSE GetInteriorCell(pages[n], i).cell.key)
    /\ isInterior(pages[n].PageType) =>
         \A k \in 1..MaxKey : findChild(pages[n], NewIntKey(k)).err = ""

\* the keys stored in the leaves below page n
KeysUnder(d, n) ==
  UNION {{d[l].cells[i].key.v : i \in 1..Len(d[l].cells)} : l \in LeavesUnder(d, n, MaxPages)}

\* the cells (k_0,c_0) ... of interior page n bound the keys of their
\* subtrees: below c_i every key is < k_i and >= k_(i-1), below the rightmost
\* child every key is >= the last separator
SeparatorsBound(d, n) ==
  /\ \A i \in 1..Len(d[n].cells) :
       \A x \in KeysUnder(d, d[n].cells[i].child) :
         /\ x < d[n].cells[i].key.v
         /\ i > 1 => x >= d[n].cells[i - 1].key.v
  /\ Len(d[n].cells) > 0 =>
       \A x \in KeysUnder(d, d[n].RightmostPointer) : x >= d[n].cells[Len(d[n].cells)].key.v

\* C26: after a successful Insert or Delete, the separators of every interior
\* page bound the keys of its subtrees, and the descent with findChild from
\* the root ends, for every stored key, at the leaf that holds the key.
C26_DescentReachesKey ==
  (last.op \in {"Insert", "Delete"} /\ last.err = "") =>
    /\ \A n \in 1..Len(pages) : isInterior(pages[n].PageType) => SeparatorsBound(pages, n)
    /\ \A k \in Keys :
         present[k] # NoValue =>
           \E r \in {navigateToLeaf(pages, root, NewIntKey(k))} :
             r.err = "" /\ k \in LeafKeys(r.leaf)

\* the interior pages of the file that have a cell
SeparatorPages(d) == {n \in 1..Len(d) : isInterior(d[n].PageType) /\ Len(d[n].cells) > 0}

LastSeparator(d, n) == d[n].cells[Len(d[n].cells)].key.v

\* C27: in every interior page, no key equal to the last separator key is
\* stored in the subtree of rightmostChild: every key there is strictly
\* greater than the last separator.
C27_RightmostStrictlyGreater ==
  \A n \in SeparatorPages(pages) :
    \A x \in KeysUnder(pages, pages[n].RightmostPointer) : x > LastSeparator(pages, n)

\* C27 as the code has it: the subtree of rightmostChild holds only keys
\* greater than or equal to the last separator, and the split that writes an
\* interior page takes the smallest key of the right sibling as the
\* separator, so that key is stored in the subtree of rightmostChild.
C27_RightmostNotSmaller ==
  [][/\ \A n \in SeparatorPages(pages') :
          \A x \in KeysUnder(pages', pages'[n].RightmostPointer) : x >= LastSeparator(pages', n)
     /\ \A n \in SeparatorPages(pages') \ SeparatorPages(pages) :
          LastSeparator(pages', n) \in KeysUnder(pages', pages'[n].RightmostPointer)]_vars

\* C27 witness: a split has written an interior root and the subtree of its
\* rightmostChild holds the separator key and a greater key
C27_Witness ==
  /\ last.op = "Insert" /\ last.err = ""
  /\ \E n \in SeparatorPages(pages) :
       /\ root = n
       /\ LastSeparator(pages, n) \in KeysUnder(pages, pages[n].RightmostPointer)
       /\ \E x \in KeysUnder(pages, pages[n].RightmostPointer) : x > LastSeparator(pages, n)

\* the keys of the cells of a page in cell-pointer order, as GetLeafCell and
\* GetInteriorCell read them
PointerOrderKeys(p) == [i \in 1..NumCells(p) |-> ReadCells(p)[i].cell.key.v]

\* C28: after a successful insertCell or deleteCell, the keys read in
\* cell-pointer order are strictly increasing.
C28_PointerOrderAscending ==
  (last.op \in {"insertCell", "deleteCell"} /\ last.err = "") =>
    Ascending(PointerOrderKeys(pages[1]))

\* C29: after every successful insertCell, deleteCell, Defragment and page
\* reset, GetFreeSpace() + 2 * numCells + the sizes of the live cells +
\* FragmentedBytes = PageSize - headerSize.
C29_SpaceAccounted ==
  (last.op \in {"insertCell", "deleteCell", "Defragment", "resetPage"} /\ last.err = "") =>
    GetFreeSpace(pages[1]) + 2 * NumCells(pages[1]) + LiveBytes(pages[1])
      + pages[1].FragmentedBytes = PageSize - GetHeaderSize(pages[1])

\* the inequality of a page header, in the integers
HeaderInequality(h) ==
  /\ GetHeaderSize(h) <= GetHeaderSize(h) + 2 * h.NumCells
  /\ GetHeaderSize(h) + 2 * h.NumCells <= h.CellContentOffset
  /\ h.CellContentOffset <= PageSize

\* the header fields of a page
HeaderOf(p) ==
  [PageType |-> p.PageType, NumCells |-> NumCells(p), CellContentOffset |-> p.CellContentOffset]

\* every cell pointer lies in [cellContentOffset, PageSize) and the live
\* cells do not overlap
CellsDisjoint(p) ==
  /\ \A i \in 1..NumCells(p) :
       /\ p.cells[i].off >= p.CellContentOffset
       /\ p.cells[i].off + CellSize(p.cells[i]) <= PageSize
  /\ \A i, j \in 1..NumCells(p) :
       i # j => \/ p.cells[i].off + CellSize(p.cells[i]) <= p.cells[j].off
                \/ p.cells[j].off + CellSize(p.cells[j]) <= p.cells[i].off

\* C30: the page that a successful insertCell, deleteCell, Defragment or
\* page reset leaves satisfies headerSize <= headerSize + 2 * numCells <=
\* cellContentOffset <= PageSize, with every cell pointer in
\* [cellContentOffset, PageSize) and no two live cells overlapping; and
\* readHeader returns an "invalid page header" error for every buffer whose
\* header violates the inequality.
C30_HeaderInequalityKept ==
  /\ (last.op \in {"insertCell", "deleteCell", "Defragment", "resetPage"} /\ last.err = "") =>
       HeaderInequality(HeaderOf(pages[1])) /\ CellsDisjoint(pages[1])
  /\ (last.op = "readHeader" /\ ~HeaderInequality(last.header)) => last.err # ""

\* the cells of a page in pointer order, without their offsets
CellSequence(p) == [i \in 1..NumCells(p) |-> [p.cells[i] EXCEPT !.off = 0]]

\* the live cells lie one after the other from cellContentOffset to the end
\* of the page, the first cell in pointer order last
PackedAtEnd(p) ==
  /\ \A i \in 1..NumCells(p) :
       p.cells[i].off + CellSize(p.cells[i]) = (IF i = 1 THEN PageSize ELSE p.cells[i - 1].off)
  /\ p.CellContentOffset = (IF NumCells(p) = 0 THEN PageSize ELSE p.cells[NumCells(p)].off)

C32_WitnessBelow ==
  /\ last.op = "deleteCell" /\ last.err = ""
  /\ pages[1].FragmentedBytes \in 1..MinFreeSpaceThreshold

\* cell sizes handed to CanFit: below, at and above what a page can hold,
\* and around the 16-bit limit
CanFitSizes ==
  {0, SmallLen, PageSize - LeafHeaderSize - 2, PageSize - LeafHeaderSize - 1, PageSize,
   U16 - 3, U16 - 2, U16 - 1, U16, U16 + SmallLen}

\* C33: CanFit(cellSize) is true exactly when GetTotalFreeSpace() >=
\* cellSize + 2, for every cellSize of 32 bits; sizes of 65534 and above
\* are reported as not fitting.
C33_CanFitIsExact ==
  \A cellSize \in CanFitSizes :
     CanFit(pages[1], cellSize) <=> (GetTotalFreeSpace(pages[1]) >= cellSize + 2)

\* C33 on sizes below 65534 only, where the narrowing loses nothing
C33_CanFitBelowLimit ==
  \A cellSize \in {c \in CanFitSizes : c + 2 < U16} :
     CanFit(pages[1], cellSize) <=> (GetTotalFreeSpace(pages[1]) >= cellSize + 2)

\* the cells of a page without their offsets, as a set
CellSet(p) == {[p.cells[i] EXCEPT !.off = 0] : i \in 1..NumCells(p)}

\* the cells of s whose key is below the key of c
Below(s, c) == {x \in s : Compare(x.key, c.key) < 0}

\* len/2 clamped to [1, len - 1]
ClampedMid(len) ==
  IF len \div 2 = 0 THEN 1 ELSE IF len \div 2 >= len THEN len - 1 ELSE len \div 2

\* C34: when an interior page overflows, the key at index mid of the sorted
\* cells is passed to the parent and stored in neither half, the cells before
\* mid stay in the old page whose rightmostChild becomes cells[mid].child,
\* the cells after mid go to the new sibling, and the sibling takes the old
\* page's former rightmostChild.
C34_InteriorSplitHalves ==
  [][(last'.op = "insertIntoParent" /\ last'.split) =>
       \E all \in {CellSet(pages[1]) \cup {last'.cell}} :
         \E m \in {c \in all : Cardinality(Below(all, c)) = ClampedMid(Cardinality(all))} :
           /\ last'.err = ""
           /\ Len(pages') = 3 /\ root' = 3
           /\ CellSet(pages'[1]) = Below(all, m)
           /\ pages'[1].RightmostPointer = m.child
           /\ CellSet(pages'[2]) = (all \ Below(all, m)) \ {m}
           /\ pages'[2].RightmostPointer = pages[1].RightmostPointer
           /\ pages'[2].PageType = pages[1].PageType
           /\ CellSet(pages'[3]) = {NewInteriorCell(m.key, 1)}
           /\ pages'[3].RightmostPointer = 2
           /\ \A i \in 1..2 : \A c \in CellSet(pages'[i]) : c.key # m.key]_vars

\* C34 witness: the seventh separator has split the root in three and three
C34_Witness ==
  /\ last.op = "insertIntoParent" /\ last.split /\ last.err = ""
  /\ Len(pages) = 3
  /\ NumCells(pages[1]) = 3 /\ NumCells(pages[2]) = 3
  /\ pages[root].cells[1].key \in {SplitKey(ch) : ch \in SplitChars}

\* C35: BTree.Insert of a new key whose leaf cell fits in an empty leaf page
\* succeeds in every tree state and for every mix of cell sizes; the two
\* halves of a leaf split by cell count each fit in one page.
C35_FittingInsertSucceeds ==
  [][(last'.op = "Insert" /\ present[last'.key] = NoValue) => last'.err = ""]_vars

\* C35, the split alone: no Insert fails while it refills the two halves
C35_SplitHalvesFit ==
  [][last'.op = "Insert" =>
       last'.err \notin {"failed to insert cell into left leaf",
                         "failed to insert cell into right leaf"}]_vars

\* C35 while the root is a leaf and the values are of one size
C35_FirstInsertsSucceed ==
  [][(last'.op = "Insert" /\ present[last'.key] = NoValue /\ isLeaf(pages[root].PageType))
       => last'.err = ""]_vars

\* what the callers of a tree see of it: Scan, every Search, the leaf chain
\* and the root page number
TreeView(d, r) ==
  [scan |-> Scan(d, r),
   search |-> [k \in Keys |-> Search(d, r, NewIntKey(k))],
   chain |-> ChainFrom(d, findLeftmostLeaf(d, r).leaf, {}),
   root |-> r]

\* C36: BTree.Insert of a value whose leaf cell cannot fit in an empty page
\* fails with an error and leaves Scan(), every Search, the leaf chain and
\* the root page number as they were.
C36_OversizeInsertRefused ==
  [][("len" \in DOMAIN last' /\ last'.op = "Insert") =>
       /\ last'.err # ""
       /\ TreeView(pages', root') = TreeView(pages, root)]_vars

\* C36 witness: a value too long was refused by a tree that holds a key, after
\* a page was allocated for the split
C36_Witness ==
  /\ "len" \in DOMAIN last /\ last.op = "Insert"
  /\ last.err = "failed to insert cell into right leaf"
  /\ PresentKeys # {}
  /\ Len(Scan(pages, root).entries) >= 1

\* C36 witness of a cell beyond 16 bits refused by the page itself
C36_WitnessWide ==
  /\ "len" \in DOMAIN last /\ last.op = "Insert" /\ last.len >= U16
  /\ last.err = "cell data exceeds page size"
  /\ PresentKeys # {}

\* how the chain of nextLeaf pointers from page n ends: at 0, at a page met
\* before, or at a page that is not in the file
RECURSIVE ChainEnd(_, _, _)
ChainEnd(d, n, seen) ==
  IF n = 0 THEN "zero"
  ELSE IF n \in seen THEN "cycle"
  ELSE IF n > Len(d) THEN "unreadable"
  ELSE ChainEnd(d, d[n].NextLeaf, seen \cup {n})

CircularReference == "circular reference detected in leaf chain"

\* what a Scan that has returned has returned
ScanReturned ==
  /\ walk.err = "" <=> ChainEnd(pages, root, {}) = "zero"
  /\ walk.err = "" => walk.currentNum = 0
  /\ walk.err = CircularReference <=> ChainEnd(pages, root, {}) = "cycle"
  /\ walk.err = CircularReference => walk.currentNum \in walk.visited
  /\ [err |-> walk.err, entries |-> walk.result] = Scan(pages, root)

\* what a RangeSearch that has returned has returned
RangeSearchReturned ==
  /\ ChainEnd(pages, root, {}) = "zero" => walk.err = ""
  /\ walk.err = "" => \/ walk.currentNum = 0
                      \/ /\ walk.currentNum \in walk.visited
                         /\ \E i \in 1..NumCells(pages[walk.currentNum]) :
                              Compare(pages[walk.currentNum].cells[i].key, walk.end) > 0
  /\ walk.err = CircularReference =>
       (ChainEnd(pages, root, {}) = "cycle" /\ walk.currentNum \in walk.visited)
  /\ [err |-> walk.err, entries |-> walk.result] = RangeSearch(pages, root, walk.start, walk.end)

\* C37: Scan and RangeSearch terminate on every leaf chain: no page is read
\* twice, a nextLeaf that leads to a page already visited ends the call with
\* the 'circular reference' error, and on an acyclic chain the call ends at
\* nextLeaf = 0.
C37_WalksTerminate ==
  /\ [](/\ Cardinality(walk.visited) <= Len(pages)
        /\ Len(walk.result) <= Cardinality(walk.visited)
        /\ (walk.done /\ walk.op = "Scan") => ScanReturned
        /\ (walk.done /\ walk.op = "RangeSearch") => RangeSearchReturned)
  /\ (~walk.done ~> walk.done)

\* C37 witness: a Scan has walked two pages and come back to one of them
C37_Witness ==
  /\ walk.done /\ walk.op = "Scan"
  /\ walk.err = CircularReference
  /\ Cardinality(walk.visited) >= 2

\* C37 witness of a RangeSearch that has met a page again
C37_WitnessRange ==
  /\ walk.done /\ walk.op = "RangeSearch"
  /\ walk.err = CircularReference

\* C37 witness of a Scan along an acyclic chain of all the pages
C37_WitnessAcyclic ==
  /\ walk.done /\ walk.op = "Scan" /\ walk.err = ""
  /\ Cardinality(walk.visited) = Len(pages)

\* the entries of the catalog tree, read through the catalog's handle
CatalogEntries == Scan(pages, cat.tree).entries

\* the catalog tree holds an entry of this type for the record
TreeHolds(type, record) ==
  \E i \in 1..Len(CatalogEntries) :
     /\ CatalogEntries[i].Key = stringToKey(record.Name)
     /\ CatalogEntries[i].Value.Type = type
     /\ CatalogEntries[i].Value.Data = record

\* C38: a name is in tableCache only if the catalog tree holds a 'table'
\* entry of that name with the same schema, and in indexCache only if the
\* tree holds an 'index' entry of that name with the same metadata, in every
\* state reached through CreateTable, CreateIndex, DropTable, DropIndex,
\* GetTable and GetIndex, their failures included.
C38_CachesCoherent ==
  /\ \A schema \in cat.tableCache : TreeHolds("table", schema)
  /\ \A index \in cat.indexCache : TreeHolds("index", index)

\* C38 witness: CreateTable has failed in a catalog whose caches hold a table
\* and an index
C38_Witness ==
  /\ last.op = "CreateTable" /\ last.err = "failed to create auto indexes"
  /\ \E schema \in cat.tableCache : schema.Name # SystemCatalogTable
  /\ cat.indexCache # {}

\* the index entry names a table that has an entry in the catalog tree
NamesTable(index) ==
  \E j \in 1..Len(CatalogEntries) :
     /\ CatalogEntries[j].Value.Type = "table"
     /\ CatalogEntries[j].Value.Data.Name = index.TableName

\* C39: in every reachable catalog state every index entry names an existing
\* table; a CreateTable that fails during auto-indexing leaves no index entry
\* with the TableName of the table it has deleted.
C39_IndexesNameTables ==
  \A i \in 1..Len(CatalogEntries) :
     CatalogEntries[i].Value.Type = "index" => NamesTable(CatalogEntries[i].Value.Data)

\* C39, the later call: where no table has the short name, CreateTable of
\* that name with a primary key does not fail in its auto indexes
C39_LaterCreateSucceeds ==
  ~tableExistsUnsafe(pages, cat, ShortName)
    => CreateTable(pages, cat, ShortName, <<IdColumn(TRUE)>>).err # "failed to create auto indexes"

====
